---- MODULE Spec2Model ----
(***************************************************************************)
(* The tutorial notebooks of reaktoro-training as a state machine.         *)
(*                                                                         *)
(* A notebook is a script: the sequence of the statements of its code      *)
(* cells, top to bottom, with the helper functions it defines inlined at   *)
(* their call sites.  The state is the state of the Python kernel that     *)
(* runs it: the global names (env for object references, num for numbers), *)
(* the objects they refer to (heap), the stack of the running for-loops    *)
(* and the position (pc) in the script that it was given (code, the cells  *)
(* of the notebook nb).  There is one action per kind of statement, i.e.   *)
(* per operation of the library that the notebooks call.                   *)
(*                                                                         *)
(* Quantities are integers: amounts in micromol, temperatures in           *)
(* centikelvin, pressures in pascal.  A literal of the source is written   *)
(* as the pair <<numerator, denominator>> together with its unit.          *)
(***************************************************************************)
EXTENDS Integers, Sequences, FiniteSets, TLC

VARIABLES nb, code, pc, env, num, heap, loops, made, last, err

vars == <<nb, code, pc, env, num, heap, loops, made, last, err>>

----------------------------------------------------------------------------
(* Bounds of the model.                                                    *)

\* iterations taken of a loop that adds a contaminant step by step
\* (nsteps = 50 in the notebooks)
MaxSteps == 2

\* temperatures taken from the temperature arrays of the sweeps
MaxTemps == 1

\* pressures taken from the pressure arrays of the sweeps
MaxPress == 2

\* how many quanta of a titrant the solver may move in or out in one solve
MaxTitrant == 1

----------------------------------------------------------------------------
(* Chemical species: formulas and the formula matrix.                      *)

Elements == <<"H", "C", "O", "Na", "Cl", "Ca", "Mg", "K", "S", "N", "Si", "Fe", "Mn", "Al", "X">>

\* the rows of a formula matrix: the elements and, last, the electric charge
Components == {Elements[i] : i \in 1..Len(Elements)} \cup {"Z"}

\* the function with no argument: an empty table
EmptyFn == [x \in {} |-> 0]

\* a formula from the atoms (and the charge "Z") it names, zero elsewhere
Fm(f) == [c \in Components |-> IF c \in DOMAIN f THEN f[c] ELSE 0]

\* the species of the database that the notebooks name, by aggregate state
AqueousSpecies ==
    {"H2O", "H+", "OH-", "Na+", "Cl-", "HCO3-", "CO2", "CO3-2", "Ca+2", "Mg+2",
     "K+", "SO4-2", "NO3-", "NH4+", "NH3", "CaCO3", "CaOH+"}

GaseousSpecies == {"CH4(g)", "O2(g)", "CO2(g)", "CO(g)", "H2O(g)", "H2(g)"}

MineralSpecies ==
    {"Calcite", "Halite", "Quartz", "Anhydrite", "SiO2(a)", "Dolomite",
     "Siderite", "Rhodochrosite", "K-feldspar", "Albite"}

ExchangeSpecies == {"NaX", "KX", "CaX2", "MgX2"}

DatabaseSpecies == AqueousSpecies \cup GaseousSpecies \cup MineralSpecies \cup ExchangeSpecies

\* Species.formula() with Species.charge(): the column of the species in the
\* formula matrix
Formula(sp) ==
    CASE sp = "H2O"       -> Fm("H" :> 2 @@ "O" :> 1)
      [] sp = "H+"        -> Fm("H" :> 1 @@ "Z" :> 1)
      [] sp = "OH-"       -> Fm("O" :> 1 @@ "H" :> 1 @@ "Z" :> -1)
      [] sp = "Na+"       -> Fm("Na" :> 1 @@ "Z" :> 1)
      [] sp = "Cl-"       -> Fm("Cl" :> 1 @@ "Z" :> -1)
      [] sp = "HCO3-"     -> Fm("H" :> 1 @@ "C" :> 1 @@ "O" :> 3 @@ "Z" :> -1)
      [] sp = "CO2"       -> Fm("C" :> 1 @@ "O" :> 2)
      [] sp = "CO3-2"     -> Fm("C" :> 1 @@ "O" :> 3 @@ "Z" :> -2)
      [] sp = "Ca+2"      -> Fm("Ca" :> 1 @@ "Z" :> 2)
      [] sp = "Mg+2"      -> Fm("Mg" :> 1 @@ "Z" :> 2)
      [] sp = "K+"        -> Fm("K" :> 1 @@ "Z" :> 1)
      [] sp = "SO4-2"     -> Fm("S" :> 1 @@ "O" :> 4 @@ "Z" :> -2)
      [] sp = "NO3-"      -> Fm("N" :> 1 @@ "O" :> 3 @@ "Z" :> -1)
      [] sp = "NH4+"      -> Fm("N" :> 1 @@ "H" :> 4 @@ "Z" :> 1)
      [] sp = "NH3"       -> Fm("N" :> 1 @@ "H" :> 3)
      [] sp = "CaCO3"     -> Fm("Ca" :> 1 @@ "C" :> 1 @@ "O" :> 3)
      [] sp = "CaOH+"     -> Fm("Ca" :> 1 @@ "O" :> 1 @@ "H" :> 1 @@ "Z" :> 1)
      [] sp = "CH4(g)"    -> Fm("C" :> 1 @@ "H" :> 4)
      [] sp = "O2(g)"     -> Fm("O" :> 2)
      [] sp = "CO2(g)"    -> Fm("C" :> 1 @@ "O" :> 2)
      [] sp = "CO(g)"     -> Fm("C" :> 1 @@ "O" :> 1)
      [] sp = "H2O(g)"    -> Fm("H" :> 2 @@ "O" :> 1)
      [] sp = "H2(g)"     -> Fm("H" :> 2)
      [] sp = "Calcite"   -> Fm("Ca" :> 1 @@ "C" :> 1 @@ "O" :> 3)
      [] sp = "Halite"    -> Fm("Na" :> 1 @@ "Cl" :> 1)
      [] sp = "Quartz"    -> Fm("Si" :> 1 @@ "O" :> 2)
      [] sp = "Anhydrite" -> Fm("Ca" :> 1 @@ "S" :> 1 @@ "O" :> 4)
      [] sp = "SiO2(a)"   -> Fm("Si" :> 1 @@ "O" :> 2)
      [] sp = "Dolomite"  -> Fm("Ca" :> 1 @@ "Mg" :> 1 @@ "C" :> 2 @@ "O" :> 6)
      [] sp = "Siderite"  -> Fm("Fe" :> 1 @@ "C" :> 1 @@ "O" :> 3)
      [] sp = "Rhodochrosite" -> Fm("Mn" :> 1 @@ "C" :> 1 @@ "O" :> 3)
      [] sp = "K-feldspar" -> Fm("K" :> 1 @@ "Al" :> 1 @@ "Si" :> 3 @@ "O" :> 8)
      [] sp = "Albite"    -> Fm("Na" :> 1 @@ "Al" :> 1 @@ "Si" :> 3 @@ "O" :> 8)
      [] sp = "NaX"       -> Fm("Na" :> 1 @@ "X" :> 1)
      [] sp = "KX"        -> Fm("K" :> 1 @@ "X" :> 1)
      [] sp = "CaX2"      -> Fm("Ca" :> 1 @@ "X" :> 2)
      [] sp = "MgX2"      -> Fm("Mg" :> 1 @@ "X" :> 2)
      \* a substance given by its chemical formula (openTo("CH4"),
      \* Material.add("NaCl", ...))
      [] sp = "CH4"       -> Fm("C" :> 1 @@ "H" :> 4)
      [] sp = "NaCl"      -> Fm("Na" :> 1 @@ "Cl" :> 1)
      [] sp = "CaCl2"     -> Fm("Ca" :> 1 @@ "Cl" :> 2)
      [] sp = "MgCl2"     -> Fm("Mg" :> 1 @@ "Cl" :> 2)
      [] sp = "SiO2"      -> Fm("Si" :> 1 @@ "O" :> 2)

RECURSIVE SumOver(_, _)
\* the sum of f over the finite set S
SumOver(S, f) ==
    IF S = {} THEN 0
    ELSE LET x == CHOOSE y \in S : TRUE IN f[x] + SumOver(S \ {x}, f)

\* the formula matrix of the database: A[sp][c] is the number of atoms of
\* the element c (the charge, for c = "Z") in the species sp
A == [sp \in DatabaseSpecies \cup {"CH4", "NaCl", "CaCl2", "MgCl2", "SiO2"} |-> Formula(sp)]

\* the species of a set in a fixed order
RECURSIVE InOrder(_)
InOrder(S) == IF S = {} THEN <<>> ELSE LET x == CHOOSE y \in S : TRUE IN <<x>> \o InOrder(S \ {x})

\* the nonzero entries of the row c of the formula matrix: the species that
\* contain the element c (that are charged, for c = "Z")
Having == [c \in Components |-> InOrder({sp \in DatabaseSpecies : A[sp][c] # 0})]

\* the row c of b = A n: the sum over the species of A[sp][c] * n[sp]
RECURSIVE RowSum(_, _, _)
RowSum(n, c, i) ==
    IF i > Len(Having[c]) THEN 0
    ELSE (IF Having[c][i] \in DOMAIN n THEN A[Having[c][i]][c] * n[Having[c][i]] ELSE 0)
         + RowSum(n, c, i + 1)

\* ChemicalState.componentAmounts(): b = A n, the amount of every element
\* and the electric charge of the species amounts n
ComponentAmounts(n) == [c \in Components |-> RowSum(n, c, 1)]

\* ChemicalState.charge()
Charge(n) == RowSum(n, "Z", 1)

----------------------------------------------------------------------------
(* Numbers and units.                                                      *)

\* a literal of the source, e.g. 0.05e-3 is Lit(5, 100000)
Lit(n, d) == <<n, d>>

RECURSIVE Gcd(_, _)
Gcd(a, b) == IF b = 0 THEN a ELSE Gcd(b, a % b)

\* a fraction in lowest terms
Norm(q) ==
    LET g == Gcd(IF q[1] < 0 THEN -q[1] ELSE q[1], q[2])
    IN  IF g = 0 THEN <<0, 1>> ELSE <<q[1] \div g, q[2] \div g>>

\* the sum a + b of two numbers
Plus(a, b) ==
    LET g == Gcd(a[2], b[2])
    IN  Norm(<<a[1] * (b[2] \div g) + b[1] * (a[2] \div g), (a[2] \div g) * b[2]>>)

\* q * f as an integer, rounding down, without an intermediate product
\* larger than the result needs
RECURSIVE MulDiv(_, _, _)
MulDiv(r, f, d) ==
    IF f = 0 THEN <<0, 0>>
    ELSE LET h  == MulDiv(r, f \div 2, d)
             q2 == 2 * h[1] + (2 * h[2]) \div d
             r2 == (2 * h[2]) % d
             r3 == IF f % 2 = 1 THEN r2 + r ELSE r2
         IN  <<q2 + r3 \div d, r3 % d>>

Scale(q, f) == (q[1] \div q[2]) * f + MulDiv(q[1] % q[2], f, q[2])[1]

\* units.convert(v, unit, "K") in centikelvin
ToKelvin(v, unit) ==
    CASE unit \in {"celsius", "C", "degC"} -> Scale(v, 100) + 27315
      [] unit \in {"kelvin", "K"}          -> Scale(v, 100)

\* units.convert(v, unit, "Pa")
ToPascal(v, unit) ==
    CASE unit = "Pa"  -> Scale(v, 1)
      [] unit = "bar" -> Scale(v, 100000)
      [] unit = "atm" -> Scale(v, 101325)
      [] unit = "MPa" -> Scale(v, 1000000)
      [] unit = "GPa" -> Scale(v, 1000000000)

\* the atomic weights of the database, in mg/mol (the exchanger X has none)
AtomicMass ==
    "H" :> 1008 @@ "C" :> 12011 @@ "O" :> 16000 @@ "Na" :> 22990 @@ "Cl" :> 35453
    @@ "Ca" :> 40080 @@ "Mg" :> 24312 @@ "K" :> 39102 @@ "S" :> 32064
    @@ "N" :> 14007 @@ "Si" :> 28084 @@ "Fe" :> 55847 @@ "Mn" :> 54938
    @@ "Al" :> 26982 @@ "X" :> 0 @@ "Z" :> 0

\* Species.molarMass() in mg/mol
MolarMass(sp) == SumOver(Components, [c \in Components |-> Formula(sp)[c] * AtomicMass[c]])

\* the amount of species sp, in micromol, that v of the unit is:
\* ChemicalState.set converts a mass with the molar mass of the species
ToMicroMol(sp, v, unit) ==
    CASE unit = "mol"  -> Scale(v, 1000000)
      [] unit = "mmol" -> Scale(v, 1000)
      [] unit = "umol" -> Scale(v, 1)
      [] unit = "kg"   -> Scale(v, 1000 * (1000000000 \div MolarMass(sp)))
      [] unit = "g"    -> Scale(v, 1000000000 \div MolarMass(sp))
      [] unit = "mg"   -> Scale(v, 1000000000 \div MolarMass(sp)) \div 1000

\* the mass of v of the unit, in mg
ToMilligram(v, unit) ==
    CASE unit = "kg" -> Scale(v, 1000000)
      [] unit = "g"  -> Scale(v, 1000)
      [] unit = "mg" -> Scale(v, 1)

\* the species that are fluid and those that are solid: scaleFluidMass
\* scales the ones, scaleSolidMass the others
FluidSpecies == AqueousSpecies \cup GaseousSpecies
SolidSpecies == MineralSpecies

\* the mass, in mg, of the amounts n (in micromol) of the species or
\* substances in S
Mass(n, S) ==
    SumOver(DOMAIN n \cap S,
            [sp \in DOMAIN n \cap S |-> Scale(<<MolarMass(sp), 1000000>>, n[sp])])

\* a state or a material that has not been scaled
NoScale == [fluid |-> <<1, 1>>, solid |-> <<1, 1>>]

\* the amount n times the factor f of a scaling, to the micromol
Scaled(n, f) == IF f[1] = f[2] THEN n ELSE Scale(f, n)

\* ChemicalState.speciesAmounts(): the amounts the state was given, the
\* fluid and the solid ones times the factor they were scaled by
Amounts(st) ==
    [sp \in DOMAIN st.n |->
        CASE sp \in FluidSpecies -> Scaled(st.n[sp], st.scale.fluid)
          [] sp \in SolidSpecies -> Scaled(st.n[sp], st.scale.solid)
          [] OTHER                -> st.n[sp]]

\* the state with its scalings carried out
Settled(st) == [st EXCEPT !.n = Amounts(st), !.scale = NoScale]

\* the element amounts and the charge of the amounts n of substances
SubstanceAmounts(n) ==
    [c \in Components |-> SumOver(DOMAIN n, [f \in DOMAIN n |-> A[f][c] * n[f]])]

\* the composition of a state before any rounding: the element amounts
\* and the charge of its fluid and of its solid species as they were given,
\* each with the factor it was scaled by
Restrict(n, S) == [sp \in DOMAIN n \cap S |-> n[sp]]

Composition(st) ==
    { [b |-> ComponentAmounts(Restrict(st.n, FluidSpecies)), scale |-> st.scale.fluid],
      [b |-> ComponentAmounts(Restrict(st.n, SolidSpecies)), scale |-> st.scale.solid] }

\* the composition of a material: the element amounts and the charge of
\* each of its parts with the factor the part was scaled by
MaterialComposition(m) ==
    {[b |-> SubstanceAmounts(m.parts[i].n), scale |-> m.parts[i].scale] : i \in 1..Len(m.parts)}

----------------------------------------------------------------------------
(* Expressions and statements of a script.                                 *)

\* a numeric literal, a global variable, a property read from a props
\* object (props.volume(), float(aprops.pH())) or an amount read from a state
\* (float(state.speciesAmount(sp)), in mol)
Const(n, d) == [k |-> "lit", q |-> Lit(n, d)]
Var(x)      == [k |-> "var", x |-> x]
Prop(x, p)  == [k |-> "prop", x |-> x, p |-> p]
Amount(x, sp) == [k |-> "amount", x |-> x, sp |-> sp]
\* a standard thermodynamic property at the temperature and pressure held
\* by two global variables (reaction.props(T, "C", P, "bar").lgK)
Thermo(p, x, y) == [k |-> "thermo", p |-> p, x |-> x, y |-> y]
\* the difference a - b
Diff(a, b)  == [k |-> "diff", a |-> a, b |-> b]

\* how a phase selects its species: by name, by the elements given to
\* speciate(), or (no argument) from the elements of the other phases
ByNames(S)  == [mode |-> "names", arg |-> S]
\* the species named, in the order in which the source names them
Listing(s)  == [mode |-> "names", arg |-> {s[i] : i \in 1..Len(s)}, order |-> s]
Speciate(E) == [mode |-> "speciate", arg |-> E]
Auto        == [mode |-> "auto", arg |-> {}]

\* x = PhreeqcDatabase(file)
NewDatabase(x, file, line) == [op |-> "db", x |-> x, file |-> file, line |-> line]
\* x = AqueousPhase(...), GaseousPhase(...), MineralPhase(...), IonExchangePhase(...)
NewPhase(x, agg, sel, line) == [op |-> "phase", x |-> x, agg |-> agg, sel |-> sel, line |-> line]
\* x.setActivityModel(model)
SetActivityModel(x, model, line) == [op |-> "model", x |-> x, model |-> model, line |-> line]
\* x = ChemicalSystem(db, *phases)
NewSystem(x, db, phases, line) == [op |-> "system", x |-> x, db |-> db, phases |-> phases, line |-> line]
\* x = ChemicalState(sys)
NewState(x, sys, line) == [op |-> "state", x |-> x, sys |-> sys, line |-> line]
\* x.temperature(v, unit), x.setTemperature(v, unit)
SetTemperature(x, v, unit, line) == [op |-> "setT", x |-> x, v |-> v, unit |-> unit, line |-> line]
\* x.pressure(v, unit), x.setPressure(v, unit)
SetPressure(x, v, unit, line) == [op |-> "setP", x |-> x, v |-> v, unit |-> unit, line |-> line]
\* x.set(sp, v, unit)
SetAmount(x, sp, v, unit, line) == [op |-> "set", x |-> x, sp |-> sp, v |-> v, unit |-> unit, line |-> line]
\* x.add(sp, v, unit)
AddAmount(x, sp, v, unit, line) == [op |-> "add", x |-> x, sp |-> sp, v |-> v, unit |-> unit, line |-> line]
\* x = ChemicalProps(of), x = AqueousProps(of), x = of.props(): of a state or a system
NewProps(x, cls, of, line) == [op |-> "props", x |-> x, cls |-> cls, of |-> of, line |-> line]
\* x.update(state)
UpdateProps(x, state, line) == [op |-> "update", x |-> x, state |-> state, line |-> line]
\* x = EquilibriumSpecs(sys)
NewSpecs(x, sys, line) == [op |-> "specs", x |-> x, sys |-> sys, line |-> line]
\* x.temperature(), x.pressure(), x.pH(), x.charge(), x.volume(), x.internalEnergy(),
\* x.fugacity(arg), x.phaseAmount(arg), x.openTo(arg), x.addInput(arg), x.addConstraint(arg)
Declare(x, what, arg, line) == [op |-> "declare", x |-> x, what |-> what, arg |-> arg, line |-> line]
\* x = EquilibriumSolver(of): of a system or of specs
NewSolver(x, of, line) == [op |-> "solver", x |-> x, of |-> of, line |-> line]
\* x = EquilibriumConditions(specs)
NewConditions(x, specs, line) == [op |-> "conditions", x |-> x, specs |-> specs, line |-> line]
\* x.temperature(v, unit), x.pressure(v, unit), x.pH(v), x.charge(v), x.volume(v),
\* x.set(input, v), ...: the value of the input
SetInput(x, input, v, unit, line) == [op |-> "input", x |-> x, input |-> input, v |-> v, unit |-> unit, line |-> line]
\* x.setLowerBoundTemperature(v, unit), ...UpperBound..., ...Pressure
SetBound(x, side, var, v, unit, line) == [op |-> "bound", x |-> x, side |-> side, var |-> var, v |-> v, unit |-> unit, line |-> line]
\* res = solver.solve(state, conditions); cond = "" for solver.solve(state)
Solve(res, solver, state, cond, line) == [op |-> "solve", res |-> res, solver |-> solver, state |-> state, cond |-> cond, line |-> line]
\* res = equilibrate(state)
Equilibrate(res, state, line) == [op |-> "equilibrate", res |-> res, state |-> state, line |-> line]
\* x = e
Assign(x, e, line) == [op |-> "assign", x |-> x, e |-> e, line |-> line]
\* x += e
Increase(x, e, line) == [op |-> "increase", x |-> x, e |-> e, line |-> line]
\* x = pd.DataFrame(columns=...)
NewFrame(x, line) == [op |-> "frame", x |-> x, line |-> line]
\* x.loc[len(at)] = row
SetRow(x, at, row, line) == [op |-> "row", x |-> x, at |-> at, row |-> row, line |-> line]
\* for x in vals: the next `body` statements, closed by EndFor
For(x, vals, body, line) == [op |-> "for", x |-> x, vals |-> vals, body |-> body, line |-> line]
EndFor(body, line) == [op |-> "endfor", body |-> body, line |-> line]
\* x.scaleVolume(v, unit)
ScaleVolume(x, v, unit, line) == [op |-> "scale", x |-> x, v |-> v, unit |-> unit, line |-> line]
\* x.scaleFluidMass(v, unit) (part = "fluid"), x.scaleSolidMass(v, unit)
\* (part = "solid")
ScaleMass(x, part, v, unit, line) == [op |-> "scalemass", x |-> x, part |-> part, v |-> v, unit |-> unit, line |-> line]
\* x = Material(sys)
NewMaterial(x, sys, line) == [op |-> "material", x |-> x, sys |-> sys, line |-> line]
\* x.add(formula, v, unit) of a material x
AddSubstance(x, formula, v, unit, line) == [op |-> "substance", x |-> x, formula |-> formula, v |-> v, unit |-> unit, line |-> line]
\* x = a(va, ua) + b(vb, ub): the mixture of two materials, each scaled to
\* the mass given for it
Mix(x, a, va, ua, b, vb, ub, line) == [op |-> "mix", x |-> x, a |-> a, va |-> va, ua |-> ua, b |-> b, vb |-> vb, ub |-> ub, line |-> line]
\* x = m.equilibrate(T, unitT, P, unitP)
EquilibrateMaterial(x, m, T, unitT, P, unitP, line) == [op |-> "mequilibrate", x |-> x, m |-> m, T |-> T, unitT |-> unitT, P |-> P, unitP |-> unitP, line |-> line]
\* print(x), print(x.optima.succeeded): reads x, no effect on the kernel's state
Show(x, line) == [op |-> "show", x |-> x, line |-> line]

----------------------------------------------------------------------------
(* The kernel: values, objects and references.                             *)

\* the value of a name bound to a number: a number, or a property that
\* the library computed from the state it was evaluated at
Number(q)      == [tok |-> "num", q |-> q, at |-> <<0, 0>>]
Token(p, snap) == [tok |-> p, q |-> Lit(0, 1), at |-> <<snap.T, snap.P>>]
None           == [tok |-> "none", q |-> Lit(0, 1), at |-> <<0, 0>>]

\* an object that no name and no other object refers to any more
Freed == [kind |-> "Freed"]

\* the references an object holds to other objects
Refs(o) ==
    CASE o.kind = "ChemicalSystem"        -> {o.db}
      [] o.kind = "ChemicalState"         -> {o.sys}
      [] o.kind = "EquilibriumSpecs"      -> {o.sys}
      [] o.kind = "EquilibriumConditions" -> {o.specs}
      [] o.kind = "EquilibriumSolver"     -> {o.sys, o.specs}
      [] o.kind = "Props"                 -> {o.sys}
      [] o.kind = "Material"              -> {o.sys}
      [] OTHER                            -> {}

\* reference counting: an object is dropped when the last reference goes
Collect(h, e) ==
    LET live == {e[x] : x \in DOMAIN e} \cup UNION {Refs(h[j]) : j \in 1..Len(h)}
    IN  [i \in 1..Len(h) |-> IF i \in live THEN h[i] ELSE Freed]

\* the object a name refers to; a name that is not bound refers to nothing
Bound(x)  == x \in DOMAIN env /\ env[x] # 0
Obj(x)    == heap[env[x]]
IsA(x, kind) == Bound(x) /\ Obj(x).kind = kind

\* what a props object keeps of the state it was evaluated at
SnapOf(st) == [T |-> st.T, P |-> st.P, b |-> ComponentAmounts(Amounts(st))]
NoSnap     == [T |-> 0, P |-> 0, b |-> ComponentAmounts(EmptyFn)]

\* the value of an expression that is not a difference.  An amount read
\* from a state is kept as the property "amount of sp" of that state.
Eval1(e) ==
    CASE e.k = "lit"    -> Number(e.q)
      [] e.k = "var"    -> num[e.x]
      [] e.k = "prop"   -> Token(e.p, Obj(e.x).snap)
      [] e.k = "amount" -> Token(e.sp, SnapOf(Obj(e.x)))
      [] e.k = "thermo" -> Token(e.p, [T |-> ToKelvin(num[e.x].q, "C"),
                                       P |-> ToPascal(num[e.y].q, "bar")])

\* the value of an expression
Eval(e) ==
    IF e.k = "diff"
    THEN LET a == Eval1(e.a)
             b == Eval1(e.b)
         IN  IF a.tok = "num" /\ b.tok = "num"
             THEN Number(Plus(a.q, <<-(b.q[1]), b.q[2]>>))
             ELSE [tok |-> "diff", q |-> a.q, at |-> b.at]
    ELSE Eval1(e)

\* can the expression be evaluated: are the names it reads defined
Defined1(e) ==
    CASE e.k = "lit"    -> TRUE
      [] e.k = "var"    -> num[e.x] # None
      [] e.k = "prop"   -> IsA(e.x, "Props")
      [] e.k = "amount" -> IsA(e.x, "ChemicalState") /\ e.sp \in DOMAIN Obj(e.x).n
      [] e.k = "thermo" -> num[e.x] # None /\ num[e.y] # None

Defined(e) == IF e.k = "diff" THEN Defined1(e.a) /\ Defined1(e.b) ELSE Defined1(e)

----------------------------------------------------------------------------
(* Phases and systems.                                                     *)

\* the species of a database with the aggregate state of a phase
WithAggregateState(agg) ==
    CASE agg = "Aqueous"     -> AqueousSpecies
      [] agg = "Gaseous"     -> GaseousSpecies
      [] agg = "Mineral"     -> MineralSpecies
      [] agg = "Solid"       -> MineralSpecies
      [] agg = "IonExchange" -> ExchangeSpecies

\* the elements of a species (the electric charge is not an element)
ElementsOf(sp) == {c \in Components \ {"Z"} : A[sp][c] # 0}

\* the elements that a phase with no argument has besides those of the
\* other phases: an aqueous phase has water
AdditionalElements(agg) == IF agg = "Aqueous" THEN {"H", "O"} ELSE {}

\* the species a phase contributes to a system, given the elements of the
\* phases that name their species or elements
SpeciesOf(phase, elems) ==
    CASE phase.sel.mode = "names"    -> phase.sel.arg
      [] phase.sel.mode = "speciate" ->
            {sp \in WithAggregateState(phase.agg) : ElementsOf(sp) \subseteq phase.sel.arg}
      [] phase.sel.mode = "auto"     ->
            {sp \in WithAggregateState(phase.agg) :
                ElementsOf(sp) \subseteq elems \cup AdditionalElements(phase.agg)}

\* the elements of the phases that name their species or elements
GivenElements(phases) ==
    UNION {CASE p.sel.mode = "names"    -> UNION {ElementsOf(sp) : sp \in p.sel.arg}
             [] p.sel.mode = "speciate" -> p.sel.arg
             [] p.sel.mode = "auto"     -> {}
           : p \in phases}

\* the species of the system made of these phases
SystemSpecies(phases) == UNION {SpeciesOf(p, GivenElements(phases)) : p \in phases}

\* the species of the system in their order: phase by phase as the phases
\* are passed to ChemicalSystem, the species of a phase as the source
\* names them (as the database has them, when the phase selects them)
RECURSIVE SystemColumns(_, _)
SystemColumns(phases, elems) ==
    IF phases = <<>> THEN <<>>
    ELSE LET ph == Head(phases)
         IN  (IF "order" \in DOMAIN ph.sel THEN ph.sel.order
              ELSE InOrder(SpeciesOf(ph, elems)))
             \o SystemColumns(Tail(phases), elems)

\* system.elements(): the elements of the species of the system
SystemElements(species) ==
    SelectSeq(Elements, LAMBDA c : \E sp \in species : A[sp][c] # 0)

\* system.formulaMatrix(): W[j][i] is the entry of row j and column i
FormulaMatrix(sys) ==
    LET rows == SystemElements(sys.species) \o <<"Z">>
    IN  [j \in 1..Len(rows) |->
            [i \in 1..Len(sys.columns) |-> A[sys.columns[i]][rows[j]]]]

----------------------------------------------------------------------------
(* The equilibrium solver.  The library computes the composition that      *)
(* minimises the Gibbs energy under the mass balance and the declared      *)
(* constraints; of that computation the model keeps what the notebooks     *)
(* rely on: which amounts may change, by what, and which may not.          *)

\* the reactions among the species of the notebooks, each as the change it
\* makes to the amounts of its species
Reactions ==
    { ("H2O" :> -1 @@ "H+" :> 1 @@ "OH-" :> 1),
      ("CO2" :> -1 @@ "H2O" :> -1 @@ "H+" :> 1 @@ "HCO3-" :> 1),
      ("HCO3-" :> -1 @@ "H+" :> 1 @@ "CO3-2" :> 1),
      ("Calcite" :> -1 @@ "Ca+2" :> 1 @@ "CO3-2" :> 1),
      ("Halite" :> -1 @@ "Na+" :> 1 @@ "Cl-" :> 1),
      ("Anhydrite" :> -1 @@ "Ca+2" :> 1 @@ "SO4-2" :> 1),
      ("NH3" :> -1 @@ "H2O" :> -1 @@ "NH4+" :> 1 @@ "OH-" :> 1),
      ("CH4(g)" :> -1 @@ "O2(g)" :> -2 @@ "CO2(g)" :> 1 @@ "H2O(g)" :> 2),
      ("CO(g)" :> -2 @@ "O2(g)" :> -1 @@ "CO2(g)" :> 2),
      ("H2(g)" :> -2 @@ "O2(g)" :> -1 @@ "H2O(g)" :> 2),
      ("CO2(g)" :> -1 @@ "CO2" :> 1),
      ("H2O(g)" :> -1 @@ "H2O" :> 1),
      ("NaX" :> -2 @@ "Ca+2" :> -1 @@ "CaX2" :> 1 @@ "Na+" :> 2),
      ("NaX" :> -2 @@ "Mg+2" :> -1 @@ "MgX2" :> 1 @@ "Na+" :> 2) }

\* the amounts after the reaction r has advanced by xi: S is the set of
\* the species of r whose amounts have still to change
RECURSIVE Advance(_, _, _, _)
Advance(n, r, xi, S) ==
    IF S = {} THEN n
    ELSE LET sp == CHOOSE x \in S : TRUE
         IN  Advance([n EXCEPT ![sp] = @ + xi * r[sp]], r, xi, S \ {sp})

React(n, r, xi) == Advance(n, r, xi, DOMAIN r)

\* the amounts a single reaction step can lead to: no step, or one reaction
\* among the species of the system, forward or backward
Redistributions(n) ==
    {n} \cup {React(n, r, xi) : r \in {x \in Reactions : DOMAIN x \subseteq DOMAIN n},
                               xi \in {-1, 1}}

\* the species of the system that takes up the titrant t
Receiver(t, species) ==
    IF t \in species THEN t ELSE CHOOSE sp \in species : A[sp] = A[t]

\* the amounts after q[t] of each titrant t has entered (left, if
\* negative): S is the set of the titrants that have still to enter
RECURSIVE Enter(_, _, _)
Enter(n, q, S) ==
    IF S = {} THEN n
    ELSE LET t == CHOOSE x \in S : TRUE
         IN  Enter([n EXCEPT ![Receiver(t, DOMAIN n)] = @ + q[t]], q, S \ {t})

Titrate(n, q) == Enter(n, q, DOMAIN q)

\* the value of a declared input: the one set in the conditions, else the
\* one of the state the calculation starts from
InputValue(input, vals, st) ==
    IF input \in DOMAIN vals THEN vals[input].q[1]
    ELSE CASE input = "T"      -> st.T
           [] input = "P"      -> st.P
           [] input = "charge" -> Charge(st.n)
           [] OTHER            -> 0

\* the values an unknown temperature or pressure can come out with
Unknown(var, cur, lo, hi) ==
    IF var \in DOMAIN lo /\ var \in DOMAIN hi
    THEN {x \in {lo[var], cur, hi[var]} : lo[var] <= x /\ x <= hi[var]}
    ELSE {cur}

\* the amounts of the titrants that can enter: a few quanta of each, and,
\* when the charge is constrained, of a charged titrant the amount that
\* brings the charge to its target given the amounts of the others
TitrantAmounts(inputs, titrants, vals, st) ==
    LET few == [titrants -> -MaxTitrant..MaxTitrant]
        z(t) == A[t]["Z"]
        rest(q, t) == Charge(st.n) + SumOver(titrants \ {t}, [u \in titrants |-> q[u] * z(u)])
        need(q, t) == InputValue("charge", vals, st) - rest(q, t)
    IN  few \cup
        IF "charge" \in inputs
        THEN {[q EXCEPT ![t] = need(q, t) \div z(t)] :
                  q \in few, t \in {u \in titrants : z(u) # 0}}
        ELSE {}

\* the outcomes of solving for the inputs, titrants, values and bounds from
\* the state st.  Mass balance: the amounts change by a redistribution
\* among the species and by what enters as titrant, and by nothing else.
\* A calculation that succeeded satisfies the constraints; one that failed
\* reports it in the flag and leaves what it had reached.
Outcomes(inputs, titrants, vals, lo, hi, st) ==
    { o \in [ T  : IF "T" \in inputs THEN {InputValue("T", vals, st)}
                   ELSE Unknown("T", st.T, lo, hi),
              P  : IF "P" \in inputs THEN {InputValue("P", vals, st)}
                   ELSE Unknown("P", st.P, lo, hi),
              n  : UNION {Redistributions(Titrate(st.n, q)) :
                          q \in TitrantAmounts(inputs, titrants, vals, st)},
              ok : BOOLEAN ] :
        /\ \A sp \in DOMAIN o.n : o.n[sp] >= 0
        /\ (o.ok /\ "charge" \in inputs) =>
                Charge(o.n) = InputValue("charge", vals, st) }

----------------------------------------------------------------------------
(* The notebooks of tutorials/equilibrium.                                 *)

\* the gases of the combustion examples
CombustionGases == {"CH4(g)", "O2(g)", "CO2(g)", "CO(g)", "H2O(g)", "H2(g)"}

\* the aqueous species of the fixed-pH examples
CarbonatedBrine == {"H2O", "H+", "OH-", "Na+", "Cl-", "HCO3-", "CO2", "CO3-2"}

\* equilibrium-with-fixed-volume-internal-energy.ipynb, second notebook of
\* the file: "Chemical equilibrium: the basics"
EquilibriumBasics ==
    << NewDatabase("db", "llnl.dat", 264),
       NewPhase("gases", "Gaseous", ByNames(CombustionGases), 266),
       NewSystem("system", "db", <<"gases">>, 268),
       NewState("state", "system", 284),
       SetTemperature("state", Const(25, 1), "celsius", 285),
       SetPressure("state", Const(100, 1), "bar", 286),
       SetAmount("state", "CH4(g)", Const(1, 1), "mol", 287),
       SetAmount("state", "O2(g)", Const(1, 2), "mol", 288),
       NewSolver("solver", "system", 307),
       Solve("", "solver", "state", "", 308),
       Show("state", 311),
       NewState("state", "system", 346),
       SetTemperature("state", Const(25, 1), "celsius", 347),
       SetPressure("state", Const(100, 1), "bar", 348),
       SetAmount("state", "CH4(g)", Const(1, 1), "mol", 349),
       SetAmount("state", "O2(g)", Const(1, 2), "mol", 350),
       NewSolver("solver", "system", 352),
       Solve("result", "solver", "state", "", 353),
       Show("result", 355) >>

\* equilibrium-with-fixed-volume-internal-energy.ipynb, first notebook
FixedVolumeInternalEnergy ==
    << NewDatabase("db", "llnl.dat", 20),
       NewPhase("gases", "Gaseous", ByNames(CombustionGases), 22),
       NewSystem("system", "db", <<"gases">>, 24),
       NewState("state", "system", 40),
       SetTemperature("state", Const(25, 1), "celsius", 41),
       SetPressure("state", Const(1, 1), "bar", 42),
       SetAmount("state", "CH4(g)", Const(3, 4), "mol", 43),
       SetAmount("state", "O2(g)", Const(1, 4), "mol", 44),
       ScaleVolume("state", Const(10, 1), "cm3", 45),
       NewProps("props", "ChemicalProps", "state", 64),
       Assign("V0", Prop("props", "volume"), 66),
       Assign("U0", Prop("props", "internalEnergy"), 67),
       NewSpecs("specs", "system", 91),
       Declare("specs", "volume", "", 92),
       Declare("specs", "internalEnergy", "", 93),
       NewSolver("solver", "specs", 95),
       NewConditions("conditions", "specs", 97),
       SetInput("conditions", "V", Var("V0"), "", 98),
       SetInput("conditions", "U", Var("U0"), "", 99),
       SetBound("conditions", "lo", "T", Const(25, 1), "celsius", 101),
       SetBound("conditions", "hi", "T", Const(100, 1), "celsius", 102),
       SetBound("conditions", "lo", "P", Const(1, 1), "bar", 104),
       SetBound("conditions", "hi", "P", Const(100, 1), "bar", 105),
       Solve("", "solver", "state", "conditions", 128),
       Show("state", 131) >>

\* equilibrium-with-fixed-ph.ipynb
FixedPH ==
    << NewDatabase("db", "pitzer.dat", 24),
       NewPhase("solution", "Aqueous", ByNames(CarbonatedBrine), 26),
       SetActivityModel("solution", "PitzerHMW", 27),
       NewSystem("system", "db", <<"solution">>, 29),
       NewSpecs("specs", "system", 51),
       Declare("specs", "temperature", "", 52),
       Declare("specs", "pressure", "", 53),
       Declare("specs", "pH", "", 54),
       NewSolver("solver", "specs", 56),
       NewState("state", "system", 105),
       SetTemperature("state", Const(30, 1), "celsius", 106),
       SetPressure("state", Const(1, 1), "atm", 107),
       SetAmount("state", "H2O", Const(1, 1), "kg", 108),
       SetAmount("state", "Na+", Const(1, 1), "mol", 109),
       SetAmount("state", "Cl-", Const(1, 1), "mol", 110),
       SetAmount("state", "CO2", Const(2, 5), "mol", 111),
       NewConditions("conditions", "specs", 163),
       SetInput("conditions", "T", Const(50, 1), "celsius", 164),
       SetInput("conditions", "P", Const(10, 1), "atm", 165),
       SetInput("conditions", "pH", Const(1, 1), "", 166),
       Solve("", "solver", "state", "conditions", 168),
       Show("state", 171),
       NewProps("aprops", "AqueousProps", "state", 228),
       Show("aprops", 231) >>

\* a faulty variant of FixedPHChargeBalance: the initial state has twice the
\* Na+ and so is not neutral
FixedPHChargeBalanceCharged ==
    << NewDatabase("db", "phreeqc.dat", 22),
       NewPhase("solution", "Aqueous", ByNames(CarbonatedBrine), 24),
       SetActivityModel("solution", "DebyeHuckel", 25),
       NewSystem("system", "db", <<"solution">>, 27),
       NewSpecs("specs", "system", 50),
       Declare("specs", "temperature", "", 51),
       Declare("specs", "pressure", "", 52),
       Declare("specs", "pH", "", 53),
       Declare("specs", "charge", "", 54),
       Declare("specs", "openTo", "Cl-", 55),
       NewSolver("solver", "specs", 57),
       NewState("state", "system", 76),
       SetTemperature("state", Const(30, 1), "celsius", 77),
       SetPressure("state", Const(1, 1), "bar", 78),
       SetAmount("state", "H2O", Const(1, 1), "kg", 79),
       SetAmount("state", "Na+", Const(2, 100), "mol", 80),
       SetAmount("state", "Cl-", Const(1, 100), "mol", 81),
       SetAmount("state", "CO2", Const(1, 10), "mol", 82),
       NewConditions("conditions", "specs", 105),
       SetInput("conditions", "T", Const(50, 1), "celsius", 106),
       SetInput("conditions", "P", Const(10, 1), "bar", 107),
       SetInput("conditions", "pH", Const(2, 1), "", 108),
       SetInput("conditions", "charge", Const(0, 1), "mol", 109),
       Solve("result", "solver", "state", "conditions", 111),
       Show("result", 112),
       Show("state", 115) >>

\* equilibrium-with-fixed-ph-charge-balance.ipynb
FixedPHChargeBalance ==
    << NewDatabase("db", "phreeqc.dat", 22),
       NewPhase("solution", "Aqueous", ByNames(CarbonatedBrine), 24),
       SetActivityModel("solution", "DebyeHuckel", 25),
       NewSystem("system", "db", <<"solution">>, 27),
       NewSpecs("specs", "system", 50),
       Declare("specs", "temperature", "", 51),
       Declare("specs", "pressure", "", 52),
       Declare("specs", "pH", "", 53),
       Declare("specs", "charge", "", 54),
       Declare("specs", "openTo", "Cl-", 55),
       NewSolver("solver", "specs", 57),
       NewState("state", "system", 76),
       SetTemperature("state", Const(30, 1), "celsius", 77),
       SetPressure("state", Const(1, 1), "bar", 78),
       SetAmount("state", "H2O", Const(1, 1), "kg", 79),
       SetAmount("state", "Na+", Const(1, 100), "mol", 80),
       SetAmount("state", "Cl-", Const(1, 100), "mol", 81),
       SetAmount("state", "CO2", Const(1, 10), "mol", 82),
       NewConditions("conditions", "specs", 105),
       SetInput("conditions", "T", Const(50, 1), "celsius", 106),
       SetInput("conditions", "P", Const(10, 1), "bar", 107),
       SetInput("conditions", "pH", Const(2, 1), "", 108),
       SetInput("conditions", "charge", Const(0, 1), "mol", 109),
       Solve("result", "solver", "state", "conditions", 111),
       Show("result", 112),
       Show("state", 115) >>

\* a faulty variant of FixedFugacity: the specs also open the system to Cl-
FixedFugacityOpenToCl ==
    << NewDatabase("db", "phreeqc.dat", 22),
       NewPhase("solution", "Aqueous", Speciate({"H", "O", "Na", "Cl", "C", "Ca"}), 24),
       SetActivityModel("solution", "HKF", 25),
       NewPhase("calcite", "Mineral", ByNames({"Calcite"}), 27),
       NewSystem("system", "db", <<"solution", "calcite">>, 29),
       NewSpecs("specs", "system", 51),
       Declare("specs", "temperature", "", 52),
       Declare("specs", "pressure", "", 53),
       Declare("specs", "fugacity", "CO2(g)", 54),
       Declare("specs", "openTo", "Cl-", 55),
       NewSolver("solver", "specs", 56),
       Assign("fCO2g", Const(1, 10), 58),
       NewConditions("conditions", "specs", 60),
       SetInput("conditions", "T", Const(50, 1), "celsius", 61),
       SetInput("conditions", "P", Const(10, 1), "bar", 62),
       SetInput("conditions", "f[CO2(g)]", Var("fCO2g"), "bar", 63),
       NewState("state", "system", 86),
       SetTemperature("state", Const(50, 1), "celsius", 87),
       SetPressure("state", Const(10, 1), "bar", 88),
       SetAmount("state", "H2O", Const(1, 1), "kg", 89),
       SetAmount("state", "Na+", Const(1, 1), "mol", 90),
       SetAmount("state", "Cl-", Const(1, 1), "mol", 91),
       SetAmount("state", "Calcite", Const(10, 1), "g", 92),
       Solve("result", "solver", "state", "conditions", 94),
       Show("result", 95),
       Show("state", 98),
       NewProps("props", "ChemicalProps", "state", 121),
       Show("props", 122),
       NewProps("aprops", "AqueousProps", "state", 143),
       Show("aprops", 144),
       Assign("T", Prop("props", "temperature"), 177),
       Assign("P", Prop("props", "pressure"), 178),
       Assign("uCO2aq", Prop("props", "speciesChemicalPotential"), 180) >>

\* equilibrium-with-fixed-fugacity.ipynb
FixedFugacity ==
    << NewDatabase("db", "phreeqc.dat", 22),
       NewPhase("solution", "Aqueous", Speciate({"H", "O", "Na", "Cl", "C", "Ca"}), 24),
       SetActivityModel("solution", "HKF", 25),
       NewPhase("calcite", "Mineral", ByNames({"Calcite"}), 27),
       NewSystem("system", "db", <<"solution", "calcite">>, 29),
       NewSpecs("specs", "system", 51),
       Declare("specs", "temperature", "", 52),
       Declare("specs", "pressure", "", 53),
       Declare("specs", "fugacity", "CO2(g)", 54),
       NewSolver("solver", "specs", 56),
       Assign("fCO2g", Const(1, 10), 58),
       NewConditions("conditions", "specs", 60),
       SetInput("conditions", "T", Const(50, 1), "celsius", 61),
       SetInput("conditions", "P", Const(10, 1), "bar", 62),
       SetInput("conditions", "f[CO2(g)]", Var("fCO2g"), "bar", 63),
       NewState("state", "system", 86),
       SetTemperature("state", Const(50, 1), "celsius", 87),
       SetPressure("state", Const(10, 1), "bar", 88),
       SetAmount("state", "H2O", Const(1, 1), "kg", 89),
       SetAmount("state", "Na+", Const(1, 1), "mol", 90),
       SetAmount("state", "Cl-", Const(1, 1), "mol", 91),
       SetAmount("state", "Calcite", Const(10, 1), "g", 92),
       Solve("result", "solver", "state", "conditions", 94),
       Show("result", 95),
       Show("state", 98),
       NewProps("props", "ChemicalProps", "state", 121),
       Show("props", 122),
       NewProps("aprops", "AqueousProps", "state", 143),
       Show("aprops", 144),
       Assign("T", Prop("props", "temperature"), 177),
       Assign("P", Prop("props", "pressure"), 178),
       Assign("uCO2aq", Prop("props", "speciesChemicalPotential"), 180) >>

\* equilibrium-with-fixed-phase-amount.ipynb
FixedPhaseAmount ==
    << NewDatabase("db", "pitzer.dat", 22),
       NewPhase("solution", "Aqueous", Speciate({"H", "O", "Na", "Cl", "C"}), 24),
       SetActivityModel("solution", "PitzerHMW", 25),
       NewPhase("gases", "Gaseous", ByNames({"CO2(g)", "H2O(g)"}), 27),
       SetActivityModel("gases", "PengRobinson", 28),
       NewSystem("system", "db", <<"solution", "gases">>, 30),
       NewState("state", "system", 46),
       SetTemperature("state", Const(60, 1), "celsius", 47),
       SetAmount("state", "H2O", Const(1, 1), "kg", 48),
       SetAmount("state", "Na+", Const(1, 1), "mol", 49),
       SetAmount("state", "Cl-", Const(1, 1), "mol", 50),
       SetAmount("state", "CO2", Const(1, 1), "mol", 51),
       Show("state", 54),
       NewSpecs("specs", "system", 75),
       Declare("specs", "temperature", "", 76),
       Declare("specs", "phaseAmount", "GaseousPhase", 77),
       NewSolver("solver", "specs", 79),
       NewConditions("conditions", "specs", 81),
       SetInput("conditions", "T", Const(60, 1), "celsius", 82),
       SetInput("conditions", "n[GaseousPhase]", Const(1, 1), "umol", 83),
       SetBound("conditions", "lo", "P", Const(1, 1), "bar", 84),
       SetBound("conditions", "hi", "P", Const(1000, 1), "bar", 85),
       Solve("", "solver", "state", "conditions", 87),
       Show("state", 90) >>

\* equilibrium-with-custom-constraints.ipynb, the problem with custom
\* volume and internal energy constraints
CustomVolumeInternalEnergy ==
    << NewDatabase("db", "llnl.dat", 39),
       NewPhase("gases", "Gaseous", ByNames(CombustionGases), 41),
       NewSystem("system", "db", <<"gases">>, 43),
       NewState("state", "system", 45),
       SetTemperature("state", Const(25, 1), "celsius", 46),
       SetPressure("state", Const(1, 1), "bar", 47),
       SetAmount("state", "CH4(g)", Const(3, 4), "mol", 48),
       SetAmount("state", "O2(g)", Const(1, 4), "mol", 49),
       ScaleVolume("state", Const(10, 1), "cm3", 50),
       NewProps("props0", "ChemicalProps", "state", 52),
       Assign("V0", Prop("props0", "volume"), 54),
       Assign("U0", Prop("props0", "internalEnergy"), 55),
       NewSpecs("specs", "system", 72),
       Declare("specs", "addInput", "V", 75),
       Declare("specs", "addInput", "U", 76),
       Declare("specs", "addConstraint", "VolumeConstraint", 89),
       Declare("specs", "addConstraint", "InternalEnergyConstraint", 90),
       NewSolver("solver", "specs", 93),
       NewConditions("conditions", "specs", 119),
       SetInput("conditions", "V", Var("V0"), "", 120),
       SetInput("conditions", "U", Var("U0"), "", 121),
       SetBound("conditions", "lo", "T", Const(25, 1), "celsius", 123),
       SetBound("conditions", "hi", "T", Const(100, 1), "celsius", 124),
       SetBound("conditions", "lo", "P", Const(1, 1), "bar", 126),
       SetBound("conditions", "hi", "P", Const(100, 1), "bar", 127),
       Solve("", "solver", "state", "conditions", 143),
       Show("state", 146) >>

\* a faulty variant of CustomFixedPH: the solver is not constructed anew, so
\* the solver of the first problem is used
CustomFixedPHOldSolver ==
    << NewDatabase("db", "phreeqc.dat", 200),
       NewPhase("solution", "Aqueous", Speciate({"H", "O", "Na", "Cl", "C", "Ca"}), 202),
       SetActivityModel("solution", "HKF+Drummond", 203),
       NewPhase("gases", "Gaseous", ByNames({"CO2(g)", "H2O(g)"}), 208),
       SetActivityModel("gases", "PengRobinson", 209),
       NewPhase("calcite", "Mineral", ByNames({"Calcite"}), 211),
       NewSystem("system", "db", <<"solution", "gases", "calcite">>, 213),
       NewState("state", "system", 275),
       SetTemperature("state", Const(25, 1), "celsius", 276),
       SetPressure("state", Const(1, 1), "atm", 277),
       SetAmount("state", "H2O", Const(1, 1), "kg", 278),
       SetAmount("state", "Na+", Const(1, 1), "mol", 279),
       SetAmount("state", "Cl-", Const(1, 1), "mol", 280),
       SetAmount("state", "Calcite", Const(10, 1), "mol", 281),
       NewSpecs("specs", "system", 301),
       Declare("specs", "temperature", "", 302),
       Declare("specs", "pressure", "", 303),
       Declare("specs", "pH", "", 304),
       NewConditions("conditions", "specs", 306),
       SetInput("conditions", "T", Const(30, 1), "celsius", 307),
       SetInput("conditions", "P", Const(5, 1), "atm", 308),
       SetInput("conditions", "pH", Const(7, 1), "", 309),
       Solve("", "solver", "state", "conditions", 312),
       NewProps("aprops", "AqueousProps", "state", 314),
       Show("aprops", 315) >>

\* equilibrium-with-custom-constraints.ipynb, the problem with fixed pH: the
\* names specs, conditions and solver are bound to new objects
CustomFixedPH ==
    << NewDatabase("db", "phreeqc.dat", 200),
       NewPhase("solution", "Aqueous", Speciate({"H", "O", "Na", "Cl", "C", "Ca"}), 202),
       SetActivityModel("solution", "HKF+Drummond", 203),
       NewPhase("gases", "Gaseous", ByNames({"CO2(g)", "H2O(g)"}), 208),
       SetActivityModel("gases", "PengRobinson", 209),
       NewPhase("calcite", "Mineral", ByNames({"Calcite"}), 211),
       NewSystem("system", "db", <<"solution", "gases", "calcite">>, 213),
       NewState("state", "system", 275),
       SetTemperature("state", Const(25, 1), "celsius", 276),
       SetPressure("state", Const(1, 1), "atm", 277),
       SetAmount("state", "H2O", Const(1, 1), "kg", 278),
       SetAmount("state", "Na+", Const(1, 1), "mol", 279),
       SetAmount("state", "Cl-", Const(1, 1), "mol", 280),
       SetAmount("state", "Calcite", Const(10, 1), "mol", 281),
       NewSpecs("specs", "system", 301),
       Declare("specs", "temperature", "", 302),
       Declare("specs", "pressure", "", 303),
       Declare("specs", "pH", "", 304),
       NewConditions("conditions", "specs", 306),
       SetInput("conditions", "T", Const(30, 1), "celsius", 307),
       SetInput("conditions", "P", Const(5, 1), "atm", 308),
       SetInput("conditions", "pH", Const(7, 1), "", 309),
       NewSolver("solver", "specs", 311),
       Solve("", "solver", "state", "conditions", 312),
       NewProps("aprops", "AqueousProps", "state", 314),
       Show("aprops", 315) >>

\* equilibrium-with-custom-constraints.ipynb: the cells run one after another
CustomConstraints == CustomVolumeInternalEnergy \o CustomFixedPH

\* a faulty variant of EquilibriumWithConstraints: the solver is constructed
\* from the specs before the constraints are declared
EquilibriumWithConstraintsEarlySolver ==
    << NewDatabase("db", "llnl.dat", 29),
       NewPhase("gases", "Gaseous", ByNames(CombustionGases), 31),
       NewSystem("system", "db", <<"gases">>, 33),
       NewSolver("solver", "system", 35),
       NewState("state", "system", 64),
       SetAmount("state", "O2(g)", Const(1, 2), "mol", 65),
       NewSpecs("specs", "system", 81),
       NewSolver("solver", "specs", 111),
       Declare("specs", "temperature", "", 82),
       Declare("specs", "volume", "", 83),
       Declare("specs", "pressure", "", 84),
       Declare("specs", "openTo", "CH4", 85),
       NewConditions("conditions", "specs", 106),
       SetInput("conditions", "T", Const(25, 1), "celsius", 107),
       SetInput("conditions", "V", Const(10, 1), "cm3", 108),
       SetInput("conditions", "P", Const(1, 1), "GPa", 109),
       Solve("", "solver", "state", "conditions", 112),
       Show("state", 114),
       Show("state", 134) >>

\* unnamed/part_000: "Chemical equilibrium with constraints"
EquilibriumWithConstraints ==
    << NewDatabase("db", "llnl.dat", 29),
       NewPhase("gases", "Gaseous", ByNames(CombustionGases), 31),
       NewSystem("system", "db", <<"gases">>, 33),
       NewSolver("solver", "system", 35),
       NewState("state", "system", 64),
       SetAmount("state", "O2(g)", Const(1, 2), "mol", 65),
       NewSpecs("specs", "system", 81),
       Declare("specs", "temperature", "", 82),
       Declare("specs", "volume", "", 83),
       Declare("specs", "pressure", "", 84),
       Declare("specs", "openTo", "CH4", 85),
       NewConditions("conditions", "specs", 106),
       SetInput("conditions", "T", Const(25, 1), "celsius", 107),
       SetInput("conditions", "V", Const(10, 1), "cm3", 108),
       SetInput("conditions", "P", Const(1, 1), "GPa", 109),
       NewSolver("solver", "specs", 111),
       Solve("", "solver", "state", "conditions", 112),
       Show("state", 114),
       Show("state", 134) >>

----------------------------------------------------------------------------
(* Arrays and loops.                                                       *)

\* the first k elements of an array
Take(s, k) == SubSeq(s, 1, IF k < Len(s) THEN k ELSE Len(s))

\* np.arange(start, stop, step), of integers
Arange(start, stop, step) ==
    [i \in 1..((stop - start + step - 1) \div step) |-> Lit(start + (i - 1) * step, 1)]

\* np.linspace(start, stop, num)
Linspace(start, stop, n) ==
    [i \in 1..n |->
        LET d == Plus(Norm(stop), <<-Norm(start)[1], Norm(start)[2]>>)
        IN  Plus(Norm(start), Norm(<<d[1] * (i - 1), d[2] * (n - 1)>>))]

\* range(n)
Range(n) == [i \in 1..n |-> Lit(i - 1, 1)]

\* for x in vals: body
Loop(x, vals, body, line) ==
    <<For(x, vals, Len(body), line)>> \o body \o <<EndFor(Len(body), line)>>

----------------------------------------------------------------------------
(* The notebooks of tutorials/solubility.                                  *)

\* the elements of the aqueous phase of the calcite and seawater notebooks
SeawaterElements == {"H", "O", "C", "Ca", "Mg", "K", "Cl", "Na", "S", "N"}

\* def water() of the calcite notebook
water ==
    << NewState("state", "system", 111),
       AddAmount("state", "H2O", Const(1, 1), "kg", 112) >>

\* def rainwater()
rainwater ==
    << NewState("state", "system", 118),
       SetAmount("state", "H2O", Const(1, 1), "kg", 120),
       SetAmount("state", "Na+", Const(205, 100), "mg", 121),
       SetAmount("state", "K+", Const(35, 100), "mg", 122),
       SetAmount("state", "Ca+2", Const(142, 100), "mg", 123),
       SetAmount("state", "Mg+2", Const(39, 100), "mg", 124),
       SetAmount("state", "Cl-", Const(347, 100), "mg", 125),
       SetAmount("state", "SO4-2", Const(219, 100), "mg", 126),
       SetAmount("state", "NO3-", Const(27, 100), "mg", 127),
       SetAmount("state", "NH4+", Const(41, 100), "mg", 128),
       SetAmount("state", "CO2", Const(36, 100), "mol", 129) >>

\* def seawater()
seawater ==
    << NewState("state", "system", 135),
       SetTemperature("state", Const(25, 1), "celsius", 137),
       SetPressure("state", Const(1, 1), "bar", 138),
       AddAmount("state", "H2O", Const(1, 1), "kg", 139),
       AddAmount("state", "Ca+2", Const(4123, 10), "mg", 140),
       AddAmount("state", "Mg+2", Const(1290, 1), "mg", 141),
       AddAmount("state", "Na+", Const(10768, 1), "mg", 142),
       AddAmount("state", "K+", Const(3991, 10), "mg", 143),
       AddAmount("state", "Cl-", Const(19353, 1), "mg", 144),
       AddAmount("state", "HCO3-", Const(1417, 10), "mg", 145),
       AddAmount("state", "SO4-2", Const(2712, 1), "mg", 146) >>

\* a faulty variant of solubility_of_calcite: the pressure is not set in
\* the conditions
solubility_of_calcite_without_pressure(df) ==
    << Assign("n0Calcite", Const(10, 1), 175),
       SetInput("conditions", "T", Var("T"), "celsius", 177),
       Solve("res", "solver", "state", "conditions", 181),
       SetAmount("state", "Calcite", Var("n0Calcite"), "mol", 184),
       Solve("res", "solver", "state", "", 187),
       UpdateProps("aprops", "state", 190),
       Assign("nCalcite", Amount("state", "Calcite"), 193),
       SetRow(df, df, <<Var("T"), Var("P"), Prop("aprops", "pH"), Diff(Var("n0Calcite"), Var("nCalcite"))>>,
              IF df = "df_water" THEN 196 ELSE 198) >>

\* a faulty variant of solubility_of_calcite: the conditions are given the
\* temperature and pressure of the call after the first solve
solubility_of_calcite_with_late_conditions(df) ==
    << Assign("n0Calcite", Const(10, 1), 175),
       Solve("res", "solver", "state", "conditions", 181),
       SetInput("conditions", "T", Var("T"), "celsius", 177),
       SetInput("conditions", "P", Var("P"), "bar", 178),
       SetAmount("state", "Calcite", Var("n0Calcite"), "mol", 184),
       Solve("res", "solver", "state", "", 187),
       UpdateProps("aprops", "state", 190),
       Assign("nCalcite", Amount("state", "Calcite"), 193),
       SetRow(df, df, <<Var("T"), Var("P"), Prop("aprops", "pH"), Diff(Var("n0Calcite"), Var("nCalcite"))>>,
              IF df = "df_water" THEN 196 ELSE 198) >>

\* def solubility_of_calcite(state, T, P, tag): the frame the row goes to
\* stands for the tag
solubility_of_calcite(df) ==
    << Assign("n0Calcite", Const(10, 1), 175),
       SetInput("conditions", "T", Var("T"), "celsius", 177),
       SetInput("conditions", "P", Var("P"), "bar", 178),
       Solve("res", "solver", "state", "conditions", 181),
       SetAmount("state", "Calcite", Var("n0Calcite"), "mol", 184),
       Solve("res", "solver", "state", "", 187),
       UpdateProps("aprops", "state", 190),
       Assign("nCalcite", Amount("state", "Calcite"), 193),
       SetRow(df, df, <<Var("T"), Var("P"), Prop("aprops", "pH"), Diff(Var("n0Calcite"), Var("nCalcite"))>>,
              IF df = "df_water" THEN 196 ELSE 198) >>

\* temperatures and pressures of the calcite sweep
CalciteTemperatures == Take(Arange(20, 91, 5), MaxTemps)
CalcitePressures == Take(<<Lit(1, 1), Lit(10, 1), Lit(100, 1)>>, MaxPress)

\* a faulty variant of SeawaterStep: the conditions are not given the
\* temperature and pressure of the iteration
SeawaterStepWithoutConditions ==
    << Assign("n0Calcite", Const(10, 1), 371) >>
    \o seawater \o
    << SetAmount("state", "CO2(g)", Var("co2_0"), "mmol", 378),
       Solve("res", "solver", "state", "conditions", 381),
       SetAmount("state", "Calcite", Var("n0Calcite"), "mol", 384),
       Solve("res", "solver", "state", "", 387),
       UpdateProps("aprops", "state", 390),
       Assign("nCalcite", Amount("state", "Calcite"), 393),
       Assign("nCO2aq", Amount("state", "CO2"), 394),
       Increase("co2_0", Var("co2_delta"), 397),
       SetRow("df_seawater", "df_seawater",
              <<Var("co2_0"), Prop("aprops", "pH"), Diff(Var("n0Calcite"), Var("nCalcite")), Var("nCO2aq")>>,
              400) >>

\* the body of the loop that adds CO2 to seawater
SeawaterStep ==
    << Assign("n0Calcite", Const(10, 1), 371),
       SetInput("conditions", "T", Var("T"), "celsius", 373),
       SetInput("conditions", "P", Var("P"), "bar", 374) >>
    \o seawater \o
    << SetAmount("state", "CO2(g)", Var("co2_0"), "mmol", 378),
       Solve("res", "solver", "state", "conditions", 381),
       SetAmount("state", "Calcite", Var("n0Calcite"), "mol", 384),
       Solve("res", "solver", "state", "", 387),
       UpdateProps("aprops", "state", 390),
       Assign("nCalcite", Amount("state", "Calcite"), 393),
       Assign("nCO2aq", Amount("state", "CO2"), 394),
       Increase("co2_0", Var("co2_delta"), 397),
       SetRow("df_seawater", "df_seawater",
              <<Var("co2_0"), Prop("aprops", "pH"), Diff(Var("n0Calcite"), Var("nCalcite")), Var("nCO2aq")>>,
              400) >>

\* nsteps = 50 of the loops that add a substance step by step
nsteps == 50

\* solubility-calcite-in-water-rainwater.ipynb, first notebook of the file
CalciteSolubility ==
    << NewDatabase("db", "phreeqc.dat", 33),
       NewPhase("aqueousphase", "Aqueous", Speciate(SeawaterElements), 36),
       SetActivityModel("aqueousphase", "HKF+Drummond", 37),
       NewPhase("gaseousphase", "Gaseous", ByNames({"CO2(g)"}), 43),
       SetActivityModel("gaseousphase", "PengRobinson", 44),
       NewPhase("mineral", "Mineral", ByNames({"Calcite"}), 47),
       NewSystem("system", "db", <<"aqueousphase", "gaseousphase", "mineral">>, 50),
       NewSpecs("specs", "system", 75),
       Declare("specs", "temperature", "", 76),
       Declare("specs", "pressure", "", 77),
       Declare("specs", "charge", "", 78),
       Declare("specs", "openTo", "Cl-", 79),
       NewConditions("conditions", "specs", 82),
       SetInput("conditions", "charge", Const(0, 1), "mol", 83),
       NewSolver("solver", "specs", 86),
       NewProps("aprops", "AqueousProps", "system", 89),
       NewFrame("df_water", 169),
       NewFrame("df_rainwater", 170) >>
    \o Loop("T", CalciteTemperatures,
            Loop("P", CalcitePressures,
                 water \o solubility_of_calcite("df_water")
                 \o rainwater \o solubility_of_calcite("df_rainwater"), 201), 200)
    \o
    << Assign("co2_0", Const(0, 1), 359),
       Assign("co2_delta", Const(2, 1), 360),
       Assign("nsteps", Const(nsteps, 1), 361),
       NewFrame("df_seawater", 363),
       Assign("T", Const(25, 1), 365),
       Assign("P", Const(1, 1), 366) >>
    \o Loop("i", Take(Range(nsteps), MaxSteps), SeawaterStep, 368)

\* pressures = np.linspace(openP, closedP, num=100)
BottlePressures == Take(Linspace(Lit(101325, 100000), Lit(379, 100), 100), MaxPress)

\* a faulty variant of OpeningBottle: the solver is constructed in the body
\* of the loop
OpeningBottleSolverPerStep ==
    << NewDatabase("db", "phreeqc.dat", 528),
       NewPhase("aqueousphase", "Aqueous", Speciate({"H", "O", "C"}), 531),
       SetActivityModel("aqueousphase", "HKF+Drummond", 532),
       NewPhase("gaseousphase", "Gaseous", ByNames({"CO2(g)"}), 538),
       SetActivityModel("gaseousphase", "PengRobinson", 539),
       NewSystem("system", "db", <<"aqueousphase", "gaseousphase">>, 542),
       Assign("closedP", Const(379, 100), 562),
       Assign("openP", Const(101325, 100000), 563),
       NewFrame("df", 583) >>
    \o Loop("P", BottlePressures,
            << NewSolver("solver", "system", 545),
               NewState("state", "system", 586),
               SetTemperature("state", Const(20, 1), "celsius", 587),
               SetPressure("state", Var("P"), "bar", 588),
               AddAmount("state", "H2O", Const(1, 2), "kg", 589),
               AddAmount("state", "CO2", Const(18, 100), "mol", 590),
               Solve("res", "solver", "state", "", 592),
               SetRow("df", "df", <<Var("P"), Amount("state", "CO2(g)")>>, 594) >>, 585)

\* solubility-calcite-in-water-rainwater.ipynb, second notebook of the
\* file: opening a bottle of sparkling water
OpeningBottle ==
    << NewDatabase("db", "phreeqc.dat", 528),
       NewPhase("aqueousphase", "Aqueous", Speciate({"H", "O", "C"}), 531),
       SetActivityModel("aqueousphase", "HKF+Drummond", 532),
       NewPhase("gaseousphase", "Gaseous", ByNames({"CO2(g)"}), 538),
       SetActivityModel("gaseousphase", "PengRobinson", 539),
       NewSystem("system", "db", <<"aqueousphase", "gaseousphase">>, 542),
       NewSolver("solver", "system", 545),
       Assign("closedP", Const(379, 100), 562),
       Assign("openP", Const(101325, 100000), 563),
       NewFrame("df", 583) >>
    \o Loop("P", BottlePressures,
            << NewState("state", "system", 586),
               SetTemperature("state", Const(20, 1), "celsius", 587),
               SetPressure("state", Var("P"), "bar", 588),
               AddAmount("state", "H2O", Const(1, 2), "kg", 589),
               AddAmount("state", "CO2", Const(18, 100), "mol", 590),
               Solve("res", "solver", "state", "", 592),
               SetRow("df", "df", <<Var("P"), Amount("state", "CO2(g)")>>, 594) >>, 585)

\* solubility-tablesalt-water.ipynb, first notebook of the file.  The
\* database of the model has no organic species, so exclude("organic")
\* removes nothing.
TableSalt ==
    << NewDatabase("db", "phreeqc.dat", 24),
       NewPhase("aqueousphase", "Aqueous", Speciate({"H", "O", "Na", "Cl", "C"}), 26),
       SetActivityModel("aqueousphase", "HKF+Drummond", 27),
       NewPhase("mineral", "Mineral", ByNames({"Halite"}), 33),
       NewSystem("system", "db", <<"aqueousphase", "mineral">>, 36),
       NewState("state", "system", 60),
       SetTemperature("state", Const(25, 1), "celsius", 61),
       SetPressure("state", Const(1, 1), "bar", 62),
       SetAmount("state", "H2O", Const(1, 1), "kg", 63),
       SetAmount("state", "Halite", Const(1, 1), "mg", 64),
       Equilibrate("res", "state", 90),
       Show("state", 91),
       SetAmount("state", "Halite", Const(1, 1), "kg", 113),
       Show("state", 114),
       Equilibrate("res", "state", 115),
       Show("state", 116) >>

\* temperatures and pressures of the anhydrite sweep
AnhydriteTemperatures == Take(Arange(0, 91, 5), MaxTemps)
AnhydritePressures == Take(<<Lit(1, 1), Lit(100, 1), Lit(1000, 1)>>, MaxPress)

\* def water_problem(T, P)
water_problem ==
    << NewState("state", "system", 288),
       SetTemperature("state", Var("T"), "celsius", 289),
       SetPressure("state", Var("P"), "bar", 290),
       AddAmount("state", "H2O", Const(1, 1), "kg", 291) >>

\* solubility-tablesalt-water.ipynb, second notebook of the file: the
\* solubility of anhydrite
Anhydrite ==
    << NewDatabase("db", "phreeqc.dat", 223),
       NewPhase("aqueousphase", "Aqueous", Speciate({"H", "O", "Ca", "S"}), 226),
       SetActivityModel("aqueousphase", "HKF", 227),
       NewPhase("minerals", "Mineral", ByNames({"Anhydrite"}), 230),
       NewSystem("system", "db", <<"aqueousphase", "minerals">>, 233),
       NewProps("props", "ChemicalProps", "system", 236),
       NewProps("aprops", "AqueousProps", "system", 237),
       NewSolver("solver", "system", 240),
       NewFrame("df", 313) >>
    \o Loop("P", AnhydritePressures,
            Loop("T", AnhydriteTemperatures,
                 <<Assign("n0Anhydrite", Const(5, 1), 321)>>
                 \o water_problem \o
                 << Solve("", "solver", "state", "", 325),
                    SetAmount("state", "Anhydrite", Var("n0Anhydrite"), "mol", 328),
                    Solve("", "solver", "state", "", 331),
                    UpdateProps("props", "state", 334),
                    UpdateProps("aprops", "state", 335),
                    Assign("I", Prop("aprops", "ionicStrength"), 338),
                    Assign("pH", Prop("aprops", "pH"), 339),
                    Assign("SI", Prop("aprops", "saturationIndexLg"), 340),
                    Assign("log10K", Thermo("lgK", "T", "P"), 342),
                    Assign("dAnhydrite", Diff(Var("n0Anhydrite"), Amount("state", "Anhydrite")), 345),
                    SetRow("df", "df", <<Var("T"), Var("P"), Var("I"), Var("pH"), Var("SI"),
                                         Var("log10K"), Var("dAnhydrite")>>, 350) >>, 319), 318)

----------------------------------------------------------------------------
(* The notebooks of tutorials/applications.                                *)

\* ph-dependence-on-contaminants-in-water.ipynb
Contaminants ==
    << NewDatabase("db", "phreeqc.dat", 32),
       NewPhase("aqueousphase", "Aqueous", Speciate({"H", "O", "Na", "Cl", "N"}), 35),
       SetActivityModel("aqueousphase", "HKF", 36),
       NewSystem("system", "db", <<"aqueousphase">>, 38),
       NewState("state", "system", 41),
       SetTemperature("state", Const(25, 1), "celsius", 42),
       SetPressure("state", Const(1, 1), "bar", 43),
       SetAmount("state", "H2O", Const(1, 1), "kg", 44),
       NewSolver("solver", "system", 47),
       Solve("", "solver", "state", "", 48),
       NewProps("aprops", "AqueousProps", "state", 51),
       Show("aprops", 52),
       Assign("hcl_0", Const(0, 1), 73),
       Assign("hcl_delta", Const(1, 10), 74),
       Assign("nsteps", Const(nsteps, 1), 75),
       NewFrame("pd1", 77),
       SetRow("pd1", "pd1", <<Var("hcl_0"), Prop("aprops", "pH")>>, 79) >>
    \o Loop("i", Take(Range(nsteps), MaxSteps),
            << AddAmount("state", "H+", Var("hcl_delta"), "mmol", 85),
               AddAmount("state", "Cl-", Var("hcl_delta"), "mmol", 86),
               Solve("", "solver", "state", "", 89),
               UpdateProps("aprops", "state", 92),
               Increase("hcl_0", Var("hcl_delta"), 95),
               SetRow("pd1", "pd1", <<Var("hcl_0"), Prop("aprops", "pH")>>, 98) >>, 82)
    \o
    << NewState("state", "system", 118),
       SetTemperature("state", Const(25, 1), "celsius", 119),
       SetPressure("state", Const(1, 1), "bar", 120),
       SetAmount("state", "H2O", Const(1, 1), "kg", 121),
       Solve("", "solver", "state", "", 122),
       UpdateProps("aprops", "state", 123),
       Assign("nh3_0", Const(0, 1), 125),
       Assign("nh3_delta", Const(1, 10), 126),
       Assign("nsteps", Const(nsteps, 1), 127),
       NewFrame("pd2", 129),
       SetRow("pd2", "pd1", <<Var("nh3_0"), Prop("aprops", "pH")>>, 131) >>
    \o Loop("i", Take(Range(nsteps), MaxSteps),
            << AddAmount("state", "NH3", Var("nh3_delta"), "mmol", 136),
               Solve("", "solver", "state", "", 139),
               UpdateProps("aprops", "state", 142),
               Increase("nh3_0", Var("nh3_delta"), 145),
               SetRow("pd2", "pd2", <<Var("nh3_0"), Prop("aprops", "pH")>>, 148) >>, 133)

\* a faulty variant of SeawaterCO2: the loop sets the amount of CO2(g)
\* instead of adding to it
SeawaterCO2SettingAmount ==
    << NewDatabase("db", "phreeqc.dat", 34),
       NewPhase("aqueousphase", "Aqueous", Speciate(SeawaterElements), 37),
       SetActivityModel("aqueousphase", "HKF+Drummond", 38),
       NewPhase("gaseousphase", "Gaseous", ByNames({"CO2(g)"}), 44),
       SetActivityModel("gaseousphase", "PengRobinson", 45),
       NewSystem("system", "db", <<"aqueousphase", "gaseousphase">>, 48),
       NewSolver("solver", "system", 51),
       NewState("state", "system", 67),
       SetTemperature("state", Const(25, 1), "celsius", 68),
       SetPressure("state", Const(1, 1), "bar", 69),
       AddAmount("state", "H2O", Const(1, 1), "kg", 70),
       AddAmount("state", "Ca+2", Const(4123, 10), "mg", 71),
       AddAmount("state", "Mg+2", Const(1290, 1), "mg", 72),
       AddAmount("state", "Na+", Const(10768, 1), "mg", 73),
       AddAmount("state", "K+", Const(3991, 10), "mg", 74),
       AddAmount("state", "Cl-", Const(19353, 1), "mg", 75),
       AddAmount("state", "HCO3-", Const(1417, 10), "mg", 76),
       AddAmount("state", "SO4-2", Const(2712, 1), "mg", 77),
       Solve("", "solver", "state", "", 79),
       NewProps("aprops", "AqueousProps", "state", 81),
       Show("aprops", 82),
       Assign("co2_0", Const(0, 1), 98),
       Assign("co2_delta", Const(1, 10), 99),
       Assign("nsteps", Const(nsteps, 1), 100),
       NewFrame("df", 102),
       SetRow("df", "df", <<Var("co2_0"), Prop("aprops", "pH")>>, 103) >>
    \o Loop("i", Take(Range(nsteps), MaxSteps),
            << SetAmount("state", "CO2(g)", Var("co2_delta"), "mmol", 108),
               Solve("", "solver", "state", "", 111),
               UpdateProps("aprops", "state", 114),
               Increase("co2_0", Var("co2_delta"), 117),
               SetRow("df", "df", <<Var("co2_0"), Prop("aprops", "pH")>>, 120) >>, 105)

\* ph-dependence-on-co2-addition-in-seawater.ipynb, first notebook of the file
SeawaterCO2 ==
    << NewDatabase("db", "phreeqc.dat", 34),
       NewPhase("aqueousphase", "Aqueous", Speciate(SeawaterElements), 37),
       SetActivityModel("aqueousphase", "HKF+Drummond", 38),
       NewPhase("gaseousphase", "Gaseous", ByNames({"CO2(g)"}), 44),
       SetActivityModel("gaseousphase", "PengRobinson", 45),
       NewSystem("system", "db", <<"aqueousphase", "gaseousphase">>, 48),
       NewSolver("solver", "system", 51),
       NewState("state", "system", 67),
       SetTemperature("state", Const(25, 1), "celsius", 68),
       SetPressure("state", Const(1, 1), "bar", 69),
       AddAmount("state", "H2O", Const(1, 1), "kg", 70),
       AddAmount("state", "Ca+2", Const(4123, 10), "mg", 71),
       AddAmount("state", "Mg+2", Const(1290, 1), "mg", 72),
       AddAmount("state", "Na+", Const(10768, 1), "mg", 73),
       AddAmount("state", "K+", Const(3991, 10), "mg", 74),
       AddAmount("state", "Cl-", Const(19353, 1), "mg", 75),
       AddAmount("state", "HCO3-", Const(1417, 10), "mg", 76),
       AddAmount("state", "SO4-2", Const(2712, 1), "mg", 77),
       Solve("", "solver", "state", "", 79),
       NewProps("aprops", "AqueousProps", "state", 81),
       Show("aprops", 82),
       Assign("co2_0", Const(0, 1), 98),
       Assign("co2_delta", Const(1, 10), 99),
       Assign("nsteps", Const(nsteps, 1), 100),
       NewFrame("df", 102),
       SetRow("df", "df", <<Var("co2_0"), Prop("aprops", "pH")>>, 103) >>
    \o Loop("i", Take(Range(nsteps), MaxSteps),
            << AddAmount("state", "CO2(g)", Var("co2_delta"), "mmol", 108),
               Solve("", "solver", "state", "", 111),
               UpdateProps("aprops", "state", 114),
               Increase("co2_0", Var("co2_delta"), 117),
               SetRow("df", "df", <<Var("co2_0"), Prop("aprops", "pH")>>, 120) >>, 105)

\* evian-water-analysis.ipynb.  An amount written x * 1e-6 / molarMass mol
\* is x mg.
EvianWater ==
    << NewDatabase("db", "phreeqc.dat", 27),
       NewPhase("aqueousphase", "Aqueous",
                Speciate({"C", "Ca", "Cl", "H", "K", "Mg", "N", "Na", "O", "S", "Si"}), 30),
       SetActivityModel("aqueousphase", "HKF+Drummond", 31),
       NewPhase("gaseousphase", "Gaseous", ByNames({"CO2(g)"}), 36),
       SetActivityModel("gaseousphase", "PengRobinson", 37),
       NewPhase("minerals", "Mineral", Auto, 39),
       NewSystem("system", "db", <<"aqueousphase", "gaseousphase", "minerals">>, 42),
       NewSpecs("specs", "system", 44),
       Declare("specs", "temperature", "", 45),
       Declare("specs", "pressure", "", 46),
       Declare("specs", "pH", "", 47),
       NewSolver("solver", "specs", 49),
       NewConditions("conditions", "specs", 51),
       SetInput("conditions", "T", Const(25, 1), "celsius", 52),
       SetInput("conditions", "P", Const(1, 1), "atm", 53),
       SetInput("conditions", "pH", Const(72, 10), "", 54),
       NewState("state", "system", 70),
       SetAmount("state", "H2O", Const(1, 1), "kg", 72),
       SetAmount("state", "Ca+2", Const(80, 1), "mg", 73),
       SetAmount("state", "Cl-", Const(68, 10), "mg", 74),
       SetAmount("state", "HCO3-", Const(350, 1), "mg", 75),
       SetAmount("state", "Mg+2", Const(26, 1), "mg", 76),
       SetAmount("state", "NO3-", Const(37, 10), "mg", 77),
       SetAmount("state", "K+", Const(1, 1), "mg", 78),
       SetAmount("state", "Na+", Const(65, 10), "mg", 79),
       SetAmount("state", "SO4-2", Const(126, 10), "mg", 80),
       SetAmount("state", "SiO2(a)", Const(15, 1), "mg", 81),
       Solve("res", "solver", "state", "conditions", 83),
       NewProps("props", "AqueousProps", "state", 104),
       Show("props", 105) >>

\* ph-dependence-on-co2-addition-in-seawater.ipynb, second notebook of the
\* file: "Computing aqueous properties"
AqueousProperties ==
    << NewDatabase("db", "phreeqc.dat", 213),
       NewPhase("solution", "Aqueous", Speciate({"H", "O", "Na", "Cl", "C", "Ca", "Si"}), 215),
       SetActivityModel("solution", "PitzerHMW", 216),
       NewPhase("gases", "Gaseous", ByNames({"CO2(g)", "H2O(g)"}), 218),
       SetActivityModel("gases", "PengRobinson", 219),
       NewPhase("minerals", "Mineral", Auto, 221),
       NewSystem("system", "db", <<"solution", "gases", "minerals">>, 223),
       NewState("state", "system", 225),
       SetTemperature("state", Const(60, 1), "celsius", 226),
       SetPressure("state", Const(15, 1), "atm", 227),
       SetAmount("state", "H2O", Const(1, 1), "kg", 228),
       SetAmount("state", "Na+", Const(1, 1), "mol", 229),
       SetAmount("state", "Cl-", Const(1, 1), "mol", 230),
       SetAmount("state", "CO2", Const(7, 10), "mol", 231),
       SetAmount("state", "Calcite", Const(1, 1), "g", 232),
       SetAmount("state", "Quartz", Const(1, 1), "g", 233),
       Equilibrate("", "state", 235),
       Show("state", 236),
       NewProps("aprops", "AqueousProps", "state", 255),
       Show("aprops", 256) >>

\* unnamed/part_001, second notebook of the file: "Computing chemical
\* properties"
ChemicalProperties ==
    << NewDatabase("db", "phreeqc.dat", 466),
       NewPhase("solution", "Aqueous", Speciate({"H", "O", "Na", "Cl", "C"}), 468),
       NewSystem("system", "db", <<"solution">>, 471),
       NewState("state", "system", 473),
       SetTemperature("state", Const(60, 1), "celsius", 474),
       SetPressure("state", Const(15, 1), "atm", 475),
       SetAmount("state", "H2O", Const(1, 1), "kg", 476),
       SetAmount("state", "Na+", Const(1, 1), "mol", 477),
       SetAmount("state", "Cl-", Const(1, 1), "mol", 478),
       SetAmount("state", "CO2", Const(7, 10), "mol", 479),
       Equilibrate("", "state", 481),
       Show("state", 483),
       NewProps("props", "ChemicalProps", "state", 512),
       Show("props", 513),
       NewPhase("solution", "Aqueous", Speciate({"H", "O", "Na", "Cl", "C", "Ca", "Si"}), 536),
       SetActivityModel("solution", "PitzerHMW", 537),
       NewPhase("gases", "Gaseous", Auto, 539),
       SetActivityModel("gases", "PengRobinson", 540),
       NewPhase("minerals", "Mineral", Auto, 542),
       NewSystem("system", "db", <<"solution", "gases", "minerals">>, 544),
       NewState("state", "system", 546),
       SetTemperature("state", Const(60, 1), "celsius", 547),
       SetPressure("state", Const(15, 1), "atm", 548),
       SetAmount("state", "H2O", Const(1, 1), "kg", 549),
       SetAmount("state", "Na+", Const(1, 1), "mol", 550),
       SetAmount("state", "Cl-", Const(1, 1), "mol", 551),
       SetAmount("state", "CO2", Const(7, 10), "mol", 552),
       SetAmount("state", "Calcite", Const(1, 1), "g", 553),
       SetAmount("state", "Quartz", Const(1, 1), "g", 554),
       Equilibrate("", "state", 556),
       NewProps("props", "ChemicalProps", "state", 559),
       Show("props", 561),
       SetTemperature("state", Const(70, 1), "celsius", 586),
       AddAmount("state", "Na+", Const(1, 1), "mol", 587),
       AddAmount("state", "Cl-", Const(1, 1), "mol", 588),
       UpdateProps("props", "state", 590),
       Show("props", 592) >>

----------------------------------------------------------------------------
(* The notebooks of unnamed/part_001 and tutorials/basics.                 *)

\* unnamed/part_001, first notebook of the file ("Specifying activity
\* models"): the system with default models and with the ideal models
\* given explicitly, and the ideal aqueous solution
ActivityModelsIdeal ==
    << NewDatabase("db", "phreeqc.dat", 33),
       NewPhase("solution", "Aqueous", Speciate({"H", "O", "Na", "Cl", "C", "Ca", "Mg"}), 36),
       NewPhase("gases", "Gaseous", ByNames({"CO2(g)", "H2O(g)"}), 37),
       NewPhase("solidsolution", "Mineral", ByNames({"Siderite", "Rhodochrosite"}), 38),
       NewPhase("ionexchange", "IonExchange", ByNames({"NaX", "CaX2"}), 39),
       NewSystem("system", "db", <<"solution", "gases", "solidsolution", "ionexchange">>, 42),
       NewPhase("solution", "Aqueous", Speciate({"H", "O", "Na", "Cl", "C", "Ca", "Mg"}), 58),
       SetActivityModel("solution", "IdealAqueous", 59),
       NewPhase("gases", "Gaseous", ByNames({"CO2(g)", "H2O(g)"}), 61),
       SetActivityModel("gases", "IdealGas", 62),
       NewPhase("solidsolution", "Mineral", ByNames({"Siderite", "Rhodochrosite"}), 64),
       SetActivityModel("solidsolution", "IdealSolution", 65),
       NewPhase("ionexchange", "IonExchange", ByNames({"NaX", "CaX2"}), 67),
       SetActivityModel("ionexchange", "IdealIonExchange", 68),
       NewSystem("system", "db", <<"solution", "gases", "solidsolution", "ionexchange">>, 70),
       NewPhase("solution", "Aqueous", Speciate({"H", "O", "Na", "Cl"}), 108),
       NewSystem("system", "db", <<"solution">>, 111),
       NewState("state", "system", 127),
       SetTemperature("state", Const(25, 1), "celsius", 128),
       SetPressure("state", Const(1, 1), "bar", 129),
       SetAmount("state", "H2O", Const(1, 1), "kg", 130),
       SetAmount("state", "Na+", Const(1, 1), "mol", 131),
       SetAmount("state", "Cl-", Const(1, 1), "mol", 132),
       NewProps("props", "ChemicalProps", "state", 135),
       Show("props", 137) >>

\* a faulty variant of ActivityModelsChained: the chained model is set on
\* the phase that the system of the earlier cell was constructed from
ActivityModelsChainedOnOldPhase ==
    << SetActivityModel("solution", "chain(HKF, Setschenow)", 158),
       NewSystem("system", "db", <<"solution">>, 165),
       NewState("state", "system", 167),
       SetTemperature("state", Const(25, 1), "celsius", 168),
       SetPressure("state", Const(1, 1), "bar", 169),
       SetAmount("state", "H2O", Const(1, 1), "kg", 170),
       SetAmount("state", "Na+", Const(1, 1), "mol", 171),
       SetAmount("state", "Cl-", Const(1, 1), "mol", 172),
       NewProps("props", "ChemicalProps", "state", 175),
       Show("props", 177) >>

\* the cell with the chained activity model of the aqueous solution
ActivityModelsChained ==
    << NewPhase("solution", "Aqueous", Speciate({"H", "O", "Na", "Cl"}), 157),
       SetActivityModel("solution", "chain(HKF, Setschenow)", 158),
       NewSystem("system", "db", <<"solution">>, 165),
       NewState("state", "system", 167),
       SetTemperature("state", Const(25, 1), "celsius", 168),
       SetPressure("state", Const(1, 1), "bar", 169),
       SetAmount("state", "H2O", Const(1, 1), "kg", 170),
       SetAmount("state", "Na+", Const(1, 1), "mol", 171),
       SetAmount("state", "Cl-", Const(1, 1), "mol", 172),
       NewProps("props", "ChemicalProps", "state", 175),
       Show("props", 177) >>

\* the cells with the gases, the solid solution and the ion exchange
ActivityModelsOther ==
    << NewPhase("gases", "Gaseous",
                ByNames({"CO2(g)", "CH4(g)", "H2O(g)", "O2(g)", "H2(g)"}), 240),
       SetActivityModel("gases", "PengRobinson", 241),
       NewSystem("system", "db", <<"gases">>, 243),
       NewState("state", "system", 259),
       SetTemperature("state", Const(100, 1), "celsius", 260),
       SetPressure("state", Const(1, 1), "bar", 261),
       SetAmount("state", "CO2(g)", Const(80, 100), "mol", 262),
       SetAmount("state", "CH4(g)", Const(10, 100), "mol", 263),
       SetAmount("state", "H2O(g)", Const(5, 100), "mol", 264),
       SetAmount("state", "O2(g)", Const(3, 100), "mol", 265),
       SetAmount("state", "H2(g)", Const(2, 100), "mol", 266),
       NewProps("props", "ChemicalProps", "state", 268),
       Show("props", 272),
       Show("props", 293),
       Assign("a0", Const(1, 1), 330),
       Assign("a1", Const(2, 1), 330),
       Assign("a2", Const(3, 1), 330),
       NewPhase("solidsolution", "Solid", ByNames({"K-feldspar", "Albite"}), 332),
       SetActivityModel("solidsolution", "RedlichKister", 333),
       NewSystem("system", "db", <<"solidsolution">>, 335),
       NewState("state", "system", 337),
       SetAmount("state", "K-feldspar", Const(1, 2), "mol", 338),
       SetAmount("state", "Albite", Const(1, 2), "mol", 339),
       NewProps("props", "ChemicalProps", "state", 341),
       Show("props", 342),
       NewPhase("solution", "Aqueous",
                ByNames({"H2O", "Na+", "Cl-", "H+", "OH-", "K+", "Ca+2", "Mg+2"}), 370),
       SetActivityModel("solution", "DebyeHuckel", 371),
       NewPhase("exchange", "IonExchange", ByNames({"NaX", "KX", "CaX2", "MgX2"}), 373),
       SetActivityModel("exchange", "IonExchangeGainesThomas", 374),
       NewSystem("system", "db", <<"solution", "exchange">>, 376),
       NewState("state", "system", 378),
       SetAmount("state", "H2O", Const(1, 1), "kg", 379),
       SetAmount("state", "Na+", Const(1, 1), "mmol", 380),
       SetAmount("state", "K+", Const(1, 1), "mmol", 381),
       SetAmount("state", "Mg+2", Const(1, 1), "mmol", 382),
       SetAmount("state", "Ca+2", Const(1, 1), "mmol", 383),
       SetAmount("state", "NaX", Const(6, 100), "umol", 384),
       SetAmount("state", "KX", Const(2, 100), "umol", 385),
       SetAmount("state", "CaX2", Const(1, 100), "umol", 386),
       SetAmount("state", "MgX2", Const(1, 100), "umol", 387),
       NewProps("props", "ChemicalProps", "state", 389),
       Show("props", 390) >>

ActivityModels == ActivityModelsIdeal \o ActivityModelsChained \o ActivityModelsOther

\* creating-chemical-states.ipynb: the state of the gases and the state
\* with the automatic aqueous phase (the surface areas are left out)
CreatingChemicalStatesFirst ==
    << NewDatabase("db", "phreeqc.dat", 24),
       NewPhase("gases", "Gaseous",
                Listing(<<"CO2(g)", "O2(g)", "H2(g)", "H2O(g)", "CH4(g)">>), 26),
       NewSystem("system", "db", <<"gases">>, 28),
       NewState("state", "system", 31),
       SetTemperature("state", Const(1000, 1), "celsius", 32),
       SetPressure("state", Const(10, 1), "MPa", 33),
       SetAmount("state", "CO2(g)", Const(1, 10), "mol", 34),
       SetAmount("state", "O2(g)", Const(2, 10), "mol", 35),
       SetAmount("state", "H2(g)", Const(3, 10), "mol", 36),
       SetAmount("state", "H2O(g)", Const(4, 10), "mol", 37),
       SetAmount("state", "CH4(g)", Const(5, 10), "mol", 38),
       Show("state", 42),
       NewDatabase("db", "pitzer.dat", 109),
       NewPhase("solution", "Aqueous", Auto, 111),
       NewPhase("minerals", "Mineral", Listing(<<"Calcite", "Quartz">>), 112),
       NewSystem("system", "db", <<"solution", "minerals">>, 114),
       NewState("state", "system", 116),
       SetAmount("state", "H2O", Const(1, 1), "kg", 117),
       Show("state", 123) >>

\* a faulty variant of CreatingChemicalStatesHalite: the system is made of
\* the aqueous phase only
CreatingChemicalStatesWithoutHalite ==
    << NewDatabase("db", "phreeqc.dat", 218),
       NewPhase("solution", "Aqueous", Listing(<<"H2O", "H+", "OH-", "Na+", "Cl-">>), 221),
       NewPhase("halite", "Mineral", Listing(<<"Halite">>), 224),
       NewSystem("system", "db", <<"solution">>, 227),
       Show("system", 244),
       Show("system", 268),
       Show("system", 271),
       Show("system", 287) >>

\* the cells of the system for the solubility of halite, whose phases,
\* species, elements and formula matrix are printed
CreatingChemicalStatesHalite ==
    << NewDatabase("db", "phreeqc.dat", 218),
       NewPhase("solution", "Aqueous", Listing(<<"H2O", "H+", "OH-", "Na+", "Cl-">>), 221),
       NewPhase("halite", "Mineral", Listing(<<"Halite">>), 224),
       NewSystem("system", "db", <<"solution", "halite">>, 227),
       Show("system", 244),
       Show("system", 268),
       Show("system", 271),
       Show("system", 287) >>

\* the cells with the systems whose species Reaktoro selects (the systems
\* with a solid solution, line 420, and with condensed phases, line 468,
\* are left out)
CreatingChemicalStatesSelected ==
    << NewPhase("solution", "Aqueous", Speciate({"H", "O", "Na", "Cl", "Ca", "C"}), 313),
       NewPhase("gas", "Gaseous", Auto, 317),
       NewSystem("system", "db", <<"solution", "gas">>, 320),
       Show("system", 340),
       NewPhase("solution", "Aqueous",
                Listing(<<"H2O", "CaOH+", "CO2", "CO3-2", "CaCO3", "Ca+2", "Cl-", "H+",
                          "HCO3-", "Na+", "OH-">>), 391),
       NewPhase("gas", "Gaseous", Auto, 393),
       NewSystem("system", "db", <<"solution", "gas">>, 395),
       Show("system", 398) >>

CreatingChemicalStates ==
    CreatingChemicalStatesFirst \o CreatingChemicalStatesHalite \o CreatingChemicalStatesSelected

----------------------------------------------------------------------------
(* The notebook of tutorials/exchange.                                     *)

\* a faulty variant of IonExchange: the extractant brings Na+ but no Cl-
IonExchangeSodiumExtractant ==
    << NewDatabase("db", "phreeqc.dat", 26),
       NewPhase("solution", "Aqueous",
                ByNames({"H2O", "Na+", "Cl-", "H+", "OH-", "K+", "Ca+2", "Mg+2"}), 58),
       SetActivityModel("solution", "HKF", 59),
       NewPhase("exchange", "IonExchange", ByNames({"CaX2", "MgX2", "NaX"}), 76),
       SetActivityModel("exchange", "IonExchangeVanselow", 77),
       NewSystem("system", "db", <<"solution", "exchange">>, 80),
       NewProps("aqprops", "AqueousProps", "system", 83),
       NewProps("exprops", "IonExchangeProps", "system", 84),
       NewSolver("solver", "system", 85),
       NewState("state", "system", 116),
       SetTemperature("state", Const(25, 1), "celsius", 117),
       SetPressure("state", Const(1, 1), "atm", 118),
       AddAmount("state", "H2O", Const(1, 1), "kg", 119),
       AddAmount("state", "Na+", Const(11, 10), "mmol", 120),
       AddAmount("state", "Mg+2", Const(48, 100), "mmol", 121),
       AddAmount("state", "Ca+2", Const(19, 10), "mmol", 122),
       AddAmount("state", "NaX", Const(5, 100000), "mol", 123),
       AddAmount("state", "Na+", Const(-5, 100000), "mol", 124),
       Solve("", "solver", "state", "", 140),
       UpdateProps("aqprops", "state", 141),
       UpdateProps("exprops", "state", 142),
       Show("aqprops", 181),
       Show("state", 182),
       Show("exprops", 185),
       Assign("scale", Const(20, 1000), 225),
       AddAmount("state", "H2O", Var("scale"), "kg", 226),
       AddAmount("state", "Na+", Var("scale"), "mol", 227),
       Solve("", "solver", "state", "", 230),
       UpdateProps("aqprops", "state", 231),
       UpdateProps("exprops", "state", 232),
       Show("aqprops", 276),
       Show("state", 277),
       Show("exprops", 280) >>

\* a faulty variant of IonExchange: the Na+ of the exchanger is not removed
IonExchangeWithoutRemoval ==
    << NewDatabase("db", "phreeqc.dat", 26),
       NewPhase("solution", "Aqueous",
                ByNames({"H2O", "Na+", "Cl-", "H+", "OH-", "K+", "Ca+2", "Mg+2"}), 58),
       SetActivityModel("solution", "HKF", 59),
       NewPhase("exchange", "IonExchange", ByNames({"CaX2", "MgX2", "NaX"}), 76),
       SetActivityModel("exchange", "IonExchangeVanselow", 77),
       NewSystem("system", "db", <<"solution", "exchange">>, 80),
       NewProps("aqprops", "AqueousProps", "system", 83),
       NewProps("exprops", "IonExchangeProps", "system", 84),
       NewSolver("solver", "system", 85),
       NewState("state", "system", 116),
       SetTemperature("state", Const(25, 1), "celsius", 117),
       SetPressure("state", Const(1, 1), "atm", 118),
       AddAmount("state", "H2O", Const(1, 1), "kg", 119),
       AddAmount("state", "Na+", Const(11, 10), "mmol", 120),
       AddAmount("state", "Mg+2", Const(48, 100), "mmol", 121),
       AddAmount("state", "Ca+2", Const(19, 10), "mmol", 122),
       AddAmount("state", "NaX", Const(5, 100000), "mol", 123),
       Solve("", "solver", "state", "", 140),
       UpdateProps("aqprops", "state", 141),
       UpdateProps("exprops", "state", 142),
       Show("aqprops", 181),
       Show("state", 182),
       Show("exprops", 185),
       Assign("scale", Const(20, 1000), 225),
       AddAmount("state", "H2O", Var("scale"), "kg", 226),
       AddAmount("state", "Na+", Var("scale"), "mol", 227),
       AddAmount("state", "Cl-", Var("scale"), "mol", 228),
       Solve("", "solver", "state", "", 230),
       UpdateProps("aqprops", "state", 231),
       UpdateProps("exprops", "state", 232),
       Show("aqprops", 276),
       Show("state", 277),
       Show("exprops", 280) >>

\* ion-exchnage-mix-porewater-extractant.ipynb.  With scale = 20e-3, the
\* amount scale * 1.0 kg is scale kg and scale * 1e3 mmol is scale mol.
IonExchange ==
    << NewDatabase("db", "phreeqc.dat", 26),
       NewPhase("solution", "Aqueous",
                ByNames({"H2O", "Na+", "Cl-", "H+", "OH-", "K+", "Ca+2", "Mg+2"}), 58),
       SetActivityModel("solution", "HKF", 59),
       NewPhase("exchange", "IonExchange", ByNames({"CaX2", "MgX2", "NaX"}), 76),
       SetActivityModel("exchange", "IonExchangeVanselow", 77),
       NewSystem("system", "db", <<"solution", "exchange">>, 80),
       NewProps("aqprops", "AqueousProps", "system", 83),
       NewProps("exprops", "IonExchangeProps", "system", 84),
       NewSolver("solver", "system", 85),
       NewState("state", "system", 116),
       SetTemperature("state", Const(25, 1), "celsius", 117),
       SetPressure("state", Const(1, 1), "atm", 118),
       AddAmount("state", "H2O", Const(1, 1), "kg", 119),
       AddAmount("state", "Na+", Const(11, 10), "mmol", 120),
       AddAmount("state", "Mg+2", Const(48, 100), "mmol", 121),
       AddAmount("state", "Ca+2", Const(19, 10), "mmol", 122),
       AddAmount("state", "NaX", Const(5, 100000), "mol", 123),
       AddAmount("state", "Na+", Const(-5, 100000), "mol", 124),
       Solve("", "solver", "state", "", 140),
       UpdateProps("aqprops", "state", 141),
       UpdateProps("exprops", "state", 142),
       Show("aqprops", 181),
       Show("state", 182),
       Show("exprops", 185),
       Assign("scale", Const(20, 1000), 225),
       AddAmount("state", "H2O", Var("scale"), "kg", 226),
       AddAmount("state", "Na+", Var("scale"), "mol", 227),
       AddAmount("state", "Cl-", Var("scale"), "mol", 228),
       Solve("", "solver", "state", "", 230),
       UpdateProps("aqprops", "state", 231),
       UpdateProps("exprops", "state", 232),
       Show("aqprops", 276),
       Show("state", 277),
       Show("exprops", 280) >>

(* The notebook tutorials/basics/defining-materials.ipynb.                  *)

\* a faulty variant of DefiningMaterialsByHand: 1.20 mol of Cl- is set
DefiningMaterialsByHandCharged ==
    << NewDatabase("db", "phreeqc.dat", 41),
       NewPhase("solution", "Aqueous", Auto, 43),
       SetActivityModel("solution", "PitzerHMW", 44),
       NewPhase("minerals", "Mineral",
                Listing(<<"Halite", "Calcite", "Dolomite", "Quartz">>), 46),
       NewSystem("system", "db", <<"solution", "minerals">>, 48),
       NewState("state", "system", 90),
       SetAmount("state", "H2O", Const(1, 1), "kg", 93),
       SetAmount("state", "Na+", Const(100, 100), "mol", 94),
       SetAmount("state", "Ca+2", Const(10, 100), "mol", 95),
       SetAmount("state", "Mg+2", Const(5, 100), "mol", 96),
       SetAmount("state", "Cl-", Const(120, 100), "mol", 97),
       SetAmount("state", "CO2", Const(10, 100), "mol", 98),
       SetAmount("state", "Quartz", Const(80, 1), "g", 101),
       SetAmount("state", "Calcite", Const(20, 1), "g", 102),
       ScaleMass("state", "fluid", Const(1, 1), "kg", 105),
       ScaleMass("state", "solid", Const(10, 1), "g", 106),
       SetTemperature("state", Const(60, 1), "celsius", 132),
       SetPressure("state", Const(15, 1), "bar", 133),
       Equilibrate("", "state", 135),
       Show("state", 137) >>

\* the cells that build the composition by hand and equilibrate it
DefiningMaterialsByHand ==
    << NewDatabase("db", "phreeqc.dat", 41),
       NewPhase("solution", "Aqueous", Auto, 43),
       SetActivityModel("solution", "PitzerHMW", 44),
       NewPhase("minerals", "Mineral",
                Listing(<<"Halite", "Calcite", "Dolomite", "Quartz">>), 46),
       NewSystem("system", "db", <<"solution", "minerals">>, 48),
       NewState("state", "system", 90),
       SetAmount("state", "H2O", Const(1, 1), "kg", 93),
       SetAmount("state", "Na+", Const(100, 100), "mol", 94),
       SetAmount("state", "Ca+2", Const(10, 100), "mol", 95),
       SetAmount("state", "Mg+2", Const(5, 100), "mol", 96),
       SetAmount("state", "Cl-", Const(130, 100), "mol", 97),
       SetAmount("state", "CO2", Const(10, 100), "mol", 98),
       SetAmount("state", "Quartz", Const(80, 1), "g", 101),
       SetAmount("state", "Calcite", Const(20, 1), "g", 102),
       ScaleMass("state", "fluid", Const(1, 1), "kg", 105),
       ScaleMass("state", "solid", Const(10, 1), "g", 106),
       SetTemperature("state", Const(60, 1), "celsius", 132),
       SetPressure("state", Const(15, 1), "bar", 133),
       Equilibrate("", "state", 135),
       Show("state", 137) >>

\* a faulty variant of DefiningMaterialsWithMaterial: the rock is mixed in
\* with the mass it was given, 100 g
DefiningMaterialsWithWholeRock ==
    << NewMaterial("brine", "system", 161),
       AddSubstance("brine", "H2O", Const(100, 100), "kg", 162),
       AddSubstance("brine", "NaCl", Const(100, 100), "mol", 163),
       AddSubstance("brine", "CaCl2", Const(10, 100), "mol", 164),
       AddSubstance("brine", "MgCl2", Const(5, 100), "mol", 165),
       AddSubstance("brine", "CO2", Const(10, 100), "mol", 166),
       NewMaterial("rock", "system", 168),
       AddSubstance("rock", "SiO2", Const(80, 1), "g", 169),
       AddSubstance("rock", "CaCO3", Const(20, 1), "g", 170),
       Mix("mix", "brine", Const(1, 1), "kg", "rock", Const(100, 1), "g", 172),
       EquilibrateMaterial("state", "mix", Const(60, 1), "celsius", Const(15, 1), "bar", 174),
       Show("state", 176) >>

\* the cell that builds the composition with the class Material and
\* equilibrates it
DefiningMaterialsWithMaterial ==
    << NewMaterial("brine", "system", 161),
       AddSubstance("brine", "H2O", Const(100, 100), "kg", 162),
       AddSubstance("brine", "NaCl", Const(100, 100), "mol", 163),
       AddSubstance("brine", "CaCl2", Const(10, 100), "mol", 164),
       AddSubstance("brine", "MgCl2", Const(5, 100), "mol", 165),
       AddSubstance("brine", "CO2", Const(10, 100), "mol", 166),
       NewMaterial("rock", "system", 168),
       AddSubstance("rock", "SiO2", Const(80, 1), "g", 169),
       AddSubstance("rock", "CaCO3", Const(20, 1), "g", 170),
       Mix("mix", "brine", Const(1, 1), "kg", "rock", Const(10, 1), "g", 172),
       EquilibrateMaterial("state", "mix", Const(60, 1), "celsius", Const(15, 1), "bar", 174),
       Show("state", 176) >>

DefiningMaterials == DefiningMaterialsByHand \o DefiningMaterialsWithMaterial

----------------------------------------------------------------------------

\* the notebooks and their scripts
Notebooks ==
    { "EquilibriumBasics", "FixedVolumeInternalEnergy", "FixedPH", "FixedPHChargeBalance",
      "FixedFugacity", "FixedPhaseAmount", "CustomConstraints", "EquilibriumWithConstraints",
      "CalciteSolubility", "OpeningBottle", "TableSalt", "Anhydrite", "Contaminants",
      "SeawaterCO2", "EvianWater", "AqueousProperties", "ChemicalProperties", "IonExchange",
      "ActivityModels", "CreatingChemicalStates", "DefiningMaterials" }

Script(book) ==
    CASE book = "EquilibriumBasics"          -> EquilibriumBasics
      [] book = "FixedVolumeInternalEnergy"  -> FixedVolumeInternalEnergy
      [] book = "FixedPH"                    -> FixedPH
      [] book = "FixedPHChargeBalance"       -> FixedPHChargeBalance
      [] book = "FixedFugacity"              -> FixedFugacity
      [] book = "FixedPhaseAmount"           -> FixedPhaseAmount
      [] book = "CustomConstraints"          -> CustomConstraints
      [] book = "EquilibriumWithConstraints" -> EquilibriumWithConstraints
      [] book = "CalciteSolubility"          -> CalciteSolubility
      [] book = "OpeningBottle"              -> OpeningBottle
      [] book = "TableSalt"                  -> TableSalt
      [] book = "Anhydrite"                  -> Anhydrite
      [] book = "Contaminants"               -> Contaminants
      [] book = "SeawaterCO2"                -> SeawaterCO2
      [] book = "EvianWater"                 -> EvianWater
      [] book = "AqueousProperties"          -> AqueousProperties
      [] book = "ChemicalProperties"         -> ChemicalProperties
      [] book = "IonExchange"                -> IonExchange
      [] book = "ActivityModels"             -> ActivityModels
      [] book = "CreatingChemicalStates"     -> CreatingChemicalStates
      [] book = "DefiningMaterials"          -> DefiningMaterials

\* the names the notebooks bind
Names ==
    UNION {{Script(b)[i].x : i \in {j \in 1..Len(Script(b)) : "x" \in DOMAIN Script(b)[j]}}
           : b \in Notebooks}
    \cup {"res", "result"}

----------------------------------------------------------------------------
(* The kernel running a notebook.                                          *)

\* a new ChemicalState has 1e-16 mol of every species, which is below the
\* resolution of the amounts of the model
DefaultAmount == 0

\* the temperature of a new ChemicalState: the note on the default state
\* gives "273.15 K (or 25 C)", which are two temperatures
DefaultTemperatures == {27315, 29815}

\* the pressure of a new ChemicalState: 1e5 Pa
DefaultPressure == 100000

\* the factors by which scaleVolume may scale the amounts of a state: the
\* factor follows from the equation of state of the phases
VolumeScalings == {<<1, 1000>>, <<1, 2000>>}

\* no solve has been called yet
NoCall ==
    [ line |-> 0, solver |-> 0, state |-> 0, cond |-> 0, solversys |-> 0, statesys |-> 0,
      solverspecs |-> 0, condspecs |-> 0, declared |-> {}, open |-> {}, given |-> {},
      bounded |-> {}, before |-> [T |-> 0, P |-> 0, b |-> ComponentAmounts(EmptyFn)],
      composition |-> {},
      wanted |-> [T |-> 0, P |-> 0],
      after |-> [T |-> 0, P |-> 0, b |-> ComponentAmounts(EmptyFn)],
      moved |-> FALSE, ok |-> FALSE ]

Init ==
    /\ nb \in Notebooks
    /\ code = Script(nb)
    /\ pc = 1
    /\ env = [x \in Names |-> 0]
    /\ num = [x \in Names |-> None]
    /\ heap = <<>>
    /\ loops = <<>>
    /\ made = [solver |-> 0, specs |-> 0, equilibrate |-> 0]
    /\ last = NoCall
    /\ err = ""

\* the script the kernel runs, and the statement it is about to run
Program == code
Running == err = "" /\ pc <= Len(Program)
Stmt    == Program[pc]
At(op)  == Running /\ Stmt.op = op

\* the statement ran to its end
Done == pc' = pc + 1 /\ err' = err

\* the statement raised an exception: the run of the notebook stops there
Raise == err' = "Error" /\ UNCHANGED <<pc, env, num, heap, made, last>>

\* x = <a new object>
BindObject(x, obj) ==
    LET h == Append(heap, obj)
        e == [env EXCEPT ![x] = Len(h)]
    IN  /\ env' = e
        /\ heap' = Collect(h, e)
        /\ num' = [num EXCEPT ![x] = None]

\* x = <a number>
BindNumber(x, v) ==
    LET e == [env EXCEPT ![x] = 0]
    IN  /\ env' = e
        /\ heap' = Collect(heap, e)
        /\ num' = [num EXCEPT ![x] = v]

\* the object that x refers to changes to obj
Mutate(x, obj) ==
    /\ heap' = [heap EXCEPT ![env[x]] = obj]
    /\ UNCHANGED <<env, num>>

LoadDatabase ==
    /\ At("db")
    /\ BindObject(Stmt.x, [kind |-> "Database", file |-> Stmt.file])
    /\ Done
    /\ UNCHANGED <<nb, code, loops, made, last>>

DefinePhase ==
    /\ At("phase")
    /\ BindObject(Stmt.x, [kind |-> "Phase", agg |-> Stmt.agg, sel |-> Stmt.sel,
                           model |-> "Ideal", used |-> FALSE])
    /\ Done
    /\ UNCHANGED <<nb, code, loops, made, last>>

PhaseSetActivityModel ==
    /\ At("model")
    /\ IF IsA(Stmt.x, "Phase")
       THEN /\ Mutate(Stmt.x, [Obj(Stmt.x) EXCEPT !.model = Stmt.model])
            /\ Done
            /\ UNCHANGED <<made, last>>
       ELSE Raise
    /\ UNCHANGED <<nb, code, loops>>

ConstructSystem ==
    /\ At("system")
    /\ IF /\ IsA(Stmt.db, "Database")
          /\ \A i \in 1..Len(Stmt.phases) : IsA(Stmt.phases[i], "Phase")
       THEN LET phases == {Obj(Stmt.phases[i]) : i \in 1..Len(Stmt.phases)}
                passed == {env[Stmt.phases[i]] : i \in 1..Len(Stmt.phases)}
                \* the phases are now part of a system
                marked == [i \in 1..Len(heap) |->
                              IF i \in passed THEN [heap[i] EXCEPT !.used = TRUE]
                              ELSE heap[i]]
                h == Append(marked,
                       [kind |-> "ChemicalSystem", db |-> env[Stmt.db],
                        phases |-> passed,
                        species |-> SystemSpecies(phases),
                        columns |-> SystemColumns(
                            [i \in 1..Len(Stmt.phases) |-> Obj(Stmt.phases[i])],
                            GivenElements(phases)),
                        models |-> {<<ph.agg, ph.model>> : ph \in phases}])
                e == [env EXCEPT ![Stmt.x] = Len(h)]
            IN  /\ env' = e
                /\ heap' = Collect(h, e)
                /\ num' = [num EXCEPT ![Stmt.x] = None]
                /\ Done
                /\ UNCHANGED <<made, last>>
       ELSE Raise
    /\ UNCHANGED <<nb, code, loops>>

ConstructState ==
    /\ At("state")
    /\ IF IsA(Stmt.sys, "ChemicalSystem")
       THEN \E T0 \in DefaultTemperatures :
                /\ BindObject(Stmt.x,
                       [kind |-> "ChemicalState", sys |-> env[Stmt.sys],
                        T |-> T0, P |-> DefaultPressure,
                        n |-> [sp \in Obj(Stmt.sys).species |-> DefaultAmount],
                        scale |-> NoScale])
                /\ Done
                /\ UNCHANGED <<made, last>>
       ELSE Raise
    /\ UNCHANGED <<nb, code, loops>>

StateSetTemperature ==
    /\ At("setT")
    /\ IF IsA(Stmt.x, "ChemicalState") /\ Defined(Stmt.v)
       THEN /\ Mutate(Stmt.x, [Obj(Stmt.x) EXCEPT !.T = ToKelvin(Eval(Stmt.v).q, Stmt.unit)])
            /\ Done
            /\ UNCHANGED <<made, last>>
       ELSE Raise
    /\ UNCHANGED <<nb, code, loops>>

StateSetPressure ==
    /\ At("setP")
    /\ IF IsA(Stmt.x, "ChemicalState") /\ Defined(Stmt.v)
       THEN /\ Mutate(Stmt.x, [Obj(Stmt.x) EXCEPT !.P = ToPascal(Eval(Stmt.v).q, Stmt.unit)])
            /\ Done
            /\ UNCHANGED <<made, last>>
       ELSE Raise
    /\ UNCHANGED <<nb, code, loops>>

StateSet ==
    /\ At("set")
    /\ IF IsA(Stmt.x, "ChemicalState") /\ Defined(Stmt.v) /\ Stmt.sp \in DOMAIN Obj(Stmt.x).n
       THEN /\ Mutate(Stmt.x, [Settled(Obj(Stmt.x)) EXCEPT
                        !.n[Stmt.sp] = ToMicroMol(Stmt.sp, Eval(Stmt.v).q, Stmt.unit)])
            /\ Done
            /\ UNCHANGED <<made, last>>
       ELSE Raise
    /\ UNCHANGED <<nb, code, loops>>

StateAdd ==
    /\ At("add")
    /\ IF IsA(Stmt.x, "ChemicalState") /\ Defined(Stmt.v) /\ Stmt.sp \in DOMAIN Obj(Stmt.x).n
       THEN /\ Mutate(Stmt.x, [Settled(Obj(Stmt.x)) EXCEPT
                        !.n[Stmt.sp] = @ + ToMicroMol(Stmt.sp, Eval(Stmt.v).q, Stmt.unit)])
            /\ Done
            /\ UNCHANGED <<made, last>>
       ELSE Raise
    /\ UNCHANGED <<nb, code, loops>>

StateScaleVolume ==
    /\ At("scale")
    /\ IF IsA(Stmt.x, "ChemicalState")
       THEN \E f \in VolumeScalings :
                /\ Mutate(Stmt.x, [Settled(Obj(Stmt.x)) EXCEPT
                        !.n = [sp \in DOMAIN @ |-> (@[sp] * f[1]) \div f[2]]])
                /\ Done
                /\ UNCHANGED <<made, last>>
       ELSE Raise
    /\ UNCHANGED <<nb, code, loops>>

\* x.scaleFluidMass(v, unit), x.scaleSolidMass(v, unit): every fluid
\* (solid) species amount is multiplied by the ratio of the mass wanted to
\* the mass the fluid (solid) species have
StateScaleMass ==
    /\ At("scalemass")
    /\ IF /\ IsA(Stmt.x, "ChemicalState") /\ Defined(Stmt.v)
          /\ Mass(Amounts(Obj(Stmt.x)),
                  IF Stmt.part = "fluid" THEN FluidSpecies ELSE SolidSpecies) > 0
       THEN LET st == IF Obj(Stmt.x).scale[Stmt.part] = <<1, 1>>
                      THEN Obj(Stmt.x) ELSE Settled(Obj(Stmt.x))
                S  == IF Stmt.part = "fluid" THEN FluidSpecies ELSE SolidSpecies
            IN  /\ Mutate(Stmt.x, [st EXCEPT !.scale[Stmt.part] =
                            <<ToMilligram(Eval(Stmt.v).q, Stmt.unit), Mass(st.n, S)>>])
                /\ Done
                /\ UNCHANGED <<made, last>>
       ELSE Raise
    /\ UNCHANGED <<nb, code, loops>>

\* x = Material(sys): a material with no substance yet
ConstructMaterial ==
    /\ At("material")
    /\ IF IsA(Stmt.sys, "ChemicalSystem")
       THEN /\ BindObject(Stmt.x,
                   [kind |-> "Material", sys |-> env[Stmt.sys],
                    parts |-> <<[n |-> EmptyFn, scale |-> <<1, 1>>]>>])
            /\ Done
            /\ UNCHANGED <<made, last>>
       ELSE Raise
    /\ UNCHANGED <<nb, code, loops>>

\* x.add(formula, v, unit): the substance is added to the part of the
\* material that has not been scaled
MaterialAdd ==
    /\ At("substance")
    /\ IF IsA(Stmt.x, "Material") /\ Defined(Stmt.v) /\ Stmt.formula \in DOMAIN A
       THEN LET m == Obj(Stmt.x)
                k == Len(m.parts)
                a == ToMicroMol(Stmt.formula, Eval(Stmt.v).q, Stmt.unit)
                had == IF Stmt.formula \in DOMAIN m.parts[k].n
                       THEN m.parts[k].n[Stmt.formula] ELSE 0
            IN  /\ Mutate(Stmt.x,
                      IF m.parts[k].scale = <<1, 1>>
                      THEN [m EXCEPT !.parts[k].n = (Stmt.formula :> had + a) @@ @]
                      ELSE [m EXCEPT !.parts =
                               Append(@, [n |-> (Stmt.formula :> a), scale |-> <<1, 1>>])])
                /\ Done
                /\ UNCHANGED <<made, last>>
       ELSE Raise
    /\ UNCHANGED <<nb, code, loops>>

\* the amounts of the substances of all parts of a material
MaterialAmounts(m) ==
    LET F == UNION {DOMAIN m.parts[i].n : i \in 1..Len(m.parts)}
    IN  [f \in F |->
            SumOver(1..Len(m.parts),
                    [i \in 1..Len(m.parts) |->
                        IF f \in DOMAIN m.parts[i].n
                        THEN Scaled(m.parts[i].n[f], m.parts[i].scale) ELSE 0])]

\* m(v, unit): the material m scaled to the mass v: every substance amount
\* is multiplied by the ratio of v to the mass of the material
MaterialWithMass(m, v, unit) ==
    LET n == MaterialAmounts(m)
    IN  <<[n |-> n, scale |-> <<ToMilligram(v, unit), Mass(n, DOMAIN n)>>]>>

\* x = a(va, ua) + b(vb, ub)
MaterialMix ==
    /\ At("mix")
    /\ IF /\ IsA(Stmt.a, "Material") /\ IsA(Stmt.b, "Material")
          /\ Obj(Stmt.a).sys = Obj(Stmt.b).sys
          /\ Defined(Stmt.va) /\ Defined(Stmt.vb)
          /\ Mass(MaterialAmounts(Obj(Stmt.a)), DOMAIN A) > 0
          /\ Mass(MaterialAmounts(Obj(Stmt.b)), DOMAIN A) > 0
       THEN /\ BindObject(Stmt.x,
                   [kind |-> "Material", sys |-> Obj(Stmt.a).sys,
                    parts |-> MaterialWithMass(Obj(Stmt.a), Eval(Stmt.va).q, Stmt.ua)
                              \o MaterialWithMass(Obj(Stmt.b), Eval(Stmt.vb).q, Stmt.ub)])
            /\ Done
            /\ UNCHANGED <<made, last>>
       ELSE Raise
    /\ UNCHANGED <<nb, code, loops>>

ConstructProps ==
    /\ At("props")
    /\ IF IsA(Stmt.of, "ChemicalState") \/ IsA(Stmt.of, "ChemicalSystem")
       THEN /\ BindObject(Stmt.x,
                   IF IsA(Stmt.of, "ChemicalState")
                   THEN [kind |-> "Props", cls |-> Stmt.cls, sys |-> Obj(Stmt.of).sys,
                         snap |-> SnapOf(Obj(Stmt.of))]
                   ELSE [kind |-> "Props", cls |-> Stmt.cls, sys |-> env[Stmt.of],
                         snap |-> NoSnap])
            /\ Done
            /\ UNCHANGED <<made, last>>
       ELSE Raise
    /\ UNCHANGED <<nb, code, loops>>

PropsUpdate ==
    /\ At("update")
    /\ IF IsA(Stmt.x, "Props") /\ IsA(Stmt.state, "ChemicalState")
       THEN /\ Mutate(Stmt.x, [Obj(Stmt.x) EXCEPT !.snap = SnapOf(Obj(Stmt.state))])
            /\ Done
            /\ UNCHANGED <<made, last>>
       ELSE Raise
    /\ UNCHANGED <<nb, code, loops>>

ConstructSpecs ==
    /\ At("specs")
    /\ IF IsA(Stmt.sys, "ChemicalSystem")
       THEN /\ BindObject(Stmt.x,
                   [kind |-> "EquilibriumSpecs", sys |-> env[Stmt.sys],
                    inputs |-> {}, titrants |-> {}, constraints |-> {}])
            /\ made' = [made EXCEPT !.specs = @ + 1]
            /\ Done
            /\ UNCHANGED last
       ELSE Raise
    /\ UNCHANGED <<nb, code, loops>>

\* the input that a declaration adds to the specs
DeclaredInput(what, arg) ==
    CASE what = "temperature"    -> {"T"}
      [] what = "pressure"       -> {"P"}
      [] what = "volume"         -> {"V"}
      [] what = "internalEnergy" -> {"U"}
      [] what = "pH"             -> {"pH"}
      [] what = "charge"         -> {"charge"}
      [] what = "fugacity"       -> {"f[" \o arg \o "]"}
      [] what = "phaseAmount"    -> {"n[" \o arg \o "]"}
      [] what = "addInput"       -> {arg}
      [] OTHER                   -> {}

\* a faulty variant of DeclaredTitrant: a fixed pH opens the system to OH-
DeclaredTitrantHydroxide(what, arg) ==
    CASE what = "pH"       -> {"OH-"}
      [] what = "fugacity" -> {CHOOSE t \in {"CO2", "CH4"} : A[t] = A[arg]}
      [] what = "openTo"   -> {arg}
      [] OTHER             -> {}

\* the substance that a declaration opens the system to
DeclaredTitrant(what, arg) ==
    CASE what = "pH"       -> {"H+"}
      [] what = "fugacity" -> {CHOOSE t \in {"CO2", "CH4"} : A[t] = A[arg]}
      [] what = "openTo"   -> {arg}
      [] OTHER             -> {}

\* the constraint equation that a declaration adds
DeclaredConstraint(what, arg) ==
    CASE what \in {"volume", "internalEnergy", "pH", "charge"} -> {what}
      [] what \in {"fugacity", "phaseAmount"}                  -> {what \o "[" \o arg \o "]"}
      [] what = "addConstraint"                                -> {arg}
      [] OTHER                                                 -> {}

SpecsDeclare ==
    /\ At("declare")
    /\ IF IsA(Stmt.x, "EquilibriumSpecs")
       THEN /\ Mutate(Stmt.x, [Obj(Stmt.x) EXCEPT
                        !.inputs = @ \cup DeclaredInput(Stmt.what, Stmt.arg),
                        !.titrants = @ \cup DeclaredTitrant(Stmt.what, Stmt.arg),
                        !.constraints = @ \cup DeclaredConstraint(Stmt.what, Stmt.arg)])
            /\ Done
            /\ UNCHANGED <<made, last>>
       ELSE Raise
    /\ UNCHANGED <<nb, code, loops>>

\* a faulty variant of SolverOf: the solver constructed from a system
\* treats the system as open to its species
SolverOfLeaky(of) ==
    IF IsA(of, "EquilibriumSpecs")
    THEN [kind |-> "EquilibriumSolver", sys |-> Obj(of).sys,
          specs |-> env[of], inputs |-> Obj(of).inputs,
          titrants |-> Obj(of).titrants, constraints |-> Obj(of).constraints]
    ELSE [kind |-> "EquilibriumSolver", sys |-> env[of],
          specs |-> 0, inputs |-> {"T", "P"},
          titrants |-> Obj(of).species, constraints |-> {}]

\* EquilibriumSolver(of): a solver takes over the problem of the specs it
\* is constructed from; a solver constructed from a system solves for given
\* temperature and pressure in the closed system
SolverOf(of) ==
    IF IsA(of, "EquilibriumSpecs")
    THEN [kind |-> "EquilibriumSolver", sys |-> Obj(of).sys,
          specs |-> env[of], inputs |-> Obj(of).inputs,
          titrants |-> Obj(of).titrants, constraints |-> Obj(of).constraints]
    ELSE [kind |-> "EquilibriumSolver", sys |-> env[of],
          specs |-> 0, inputs |-> {"T", "P"},
          titrants |-> {}, constraints |-> {}]

ConstructSolver ==
    /\ At("solver")
    /\ IF IsA(Stmt.of, "EquilibriumSpecs") \/ IsA(Stmt.of, "ChemicalSystem")
       THEN /\ BindObject(Stmt.x, SolverOf(Stmt.of))
            /\ made' = [made EXCEPT !.solver = @ + 1]
            /\ Done
            /\ UNCHANGED last
       ELSE Raise
    /\ UNCHANGED <<nb, code, loops>>

ConstructConditions ==
    /\ At("conditions")
    /\ IF IsA(Stmt.specs, "EquilibriumSpecs")
       THEN /\ BindObject(Stmt.x,
                   [kind |-> "EquilibriumConditions", specs |-> env[Stmt.specs],
                    vals |-> EmptyFn, lo |-> EmptyFn, hi |-> EmptyFn])
            /\ Done
            /\ UNCHANGED <<made, last>>
       ELSE Raise
    /\ UNCHANGED <<nb, code, loops>>

\* the value of an input in the units of the model
InModelUnits(input, v, unit) ==
    CASE input = "T"      -> Number(<<ToKelvin(v.q, unit), 1>>)
      [] input = "P"      -> Number(<<ToPascal(v.q, unit), 1>>)
      [] input = "charge" -> Number(<<ToMicroMol("", v.q, unit), 1>>)
      [] OTHER            -> v

\* setting an input that the specs do not declare is an error
ConditionsSet ==
    /\ At("input")
    /\ IF /\ IsA(Stmt.x, "EquilibriumConditions")
          /\ Defined(Stmt.v)
          /\ Stmt.input \in heap[Obj(Stmt.x).specs].inputs
       THEN /\ Mutate(Stmt.x, [Obj(Stmt.x) EXCEPT
                        !.vals = (Stmt.input :> InModelUnits(Stmt.input, Eval(Stmt.v), Stmt.unit)) @@ @])
            /\ Done
            /\ UNCHANGED <<made, last>>
       ELSE Raise
    /\ UNCHANGED <<nb, code, loops>>

\* the bound in the units of the model
BoundInModelUnits(var, v, unit) ==
    IF var = "T" THEN ToKelvin(v.q, unit) ELSE ToPascal(v.q, unit)

ConditionsSetBound ==
    /\ At("bound")
    /\ IF IsA(Stmt.x, "EquilibriumConditions") /\ Defined(Stmt.v)
       THEN /\ Mutate(Stmt.x,
                   IF Stmt.side = "lo"
                   THEN [Obj(Stmt.x) EXCEPT
                           !.lo = (Stmt.var :> BoundInModelUnits(Stmt.var, Eval(Stmt.v), Stmt.unit)) @@ @]
                   ELSE [Obj(Stmt.x) EXCEPT
                           !.hi = (Stmt.var :> BoundInModelUnits(Stmt.var, Eval(Stmt.v), Stmt.unit)) @@ @])
            /\ Done
            /\ UNCHANGED <<made, last>>
       ELSE Raise
    /\ UNCHANGED <<nb, code, loops>>

\* the record of a call of solve: what was passed, what the solver and the
\* conditions were made from, and of the state before and after the call
\* its temperature, its pressure and its component amounts b = A n; moved
\* tells whether the amounts of the species changed
Call(line, solver, state, cond) ==
    [ line |-> line, solver |-> solver, state |-> state, cond |-> cond,
      solversys |-> IF solver = 0 THEN heap[state].sys ELSE heap[solver].sys,
      statesys |-> heap[state].sys,
      solverspecs |-> IF solver = 0 THEN 0 ELSE heap[solver].specs,
      condspecs |-> IF cond = 0 THEN 0 ELSE heap[cond].specs,
      declared |-> IF solver = 0 THEN {"T", "P"} ELSE heap[solver].inputs,
      open |-> IF solver = 0 THEN {} ELSE heap[solver].titrants,
      given |-> IF cond = 0 THEN {} ELSE DOMAIN heap[cond].vals,
      bounded |-> IF cond = 0 THEN {} ELSE DOMAIN heap[cond].lo \cup DOMAIN heap[cond].hi,
      before |-> [T |-> heap[state].T, P |-> heap[state].P,
                  b |-> ComponentAmounts(Amounts(heap[state]))],
      composition |-> Composition(heap[state]),
      wanted |-> [T |-> IF cond # 0 /\ "T" \in DOMAIN heap[cond].vals
                        THEN heap[cond].vals["T"].q[1] ELSE 0,
                  P |-> IF cond # 0 /\ "P" \in DOMAIN heap[cond].vals
                        THEN heap[cond].vals["P"].q[1] ELSE 0],
      after |-> [T |-> 0, P |-> 0, b |-> ComponentAmounts(EmptyFn)],
      moved |-> FALSE, ok |-> FALSE ]

\* the record of the call that returned with the outcome o
Returned(call, st, o) ==
    [call EXCEPT !.after = [T |-> o.T, P |-> o.P, b |-> ComponentAmounts(o.n)],
                 !.moved = o.n # st.n,
                 !.ok = o.ok]

\* a faulty variant of Return: the outcome is not written to the state
\* object of the caller
ReturnDetached(res, state, o) ==
    LET r == Append(heap, [kind |-> "EquilibriumResult", succeeded |-> o.ok])
        e == [env EXCEPT ![res] = Len(r)]
    IN  IF res = ""
        THEN UNCHANGED <<env, num, heap>>
        ELSE /\ env' = e
             /\ heap' = Collect(r, e)
             /\ num' = [num EXCEPT ![res] = None]

\* the state object takes the outcome; res, if given, is bound to the result
Return(res, state, o) ==
    LET h == [heap EXCEPT ![state] = [@ EXCEPT !.T = o.T, !.P = o.P, !.n = o.n, !.scale = NoScale]]
        r == Append(h, [kind |-> "EquilibriumResult", succeeded |-> o.ok])
        e == [env EXCEPT ![res] = Len(r)]
    IN  IF res = ""
        THEN heap' = h /\ UNCHANGED <<env, num>>
        ELSE /\ env' = e
             /\ heap' = Collect(r, e)
             /\ num' = [num EXCEPT ![res] = None]

\* a faulty variant of SolverSolve: a calculation that fails raises an
\* exception
SolverSolveRaising ==
    /\ At("solve")
    /\ IF /\ IsA(Stmt.solver, "EquilibriumSolver")
          /\ IsA(Stmt.state, "ChemicalState")
          /\ Stmt.cond = "" \/ IsA(Stmt.cond, "EquilibriumConditions")
       THEN LET sv == Obj(Stmt.solver)
                st == Settled(Obj(Stmt.state))
                given == Stmt.cond # ""
                call == Call(Stmt.line, env[Stmt.solver], env[Stmt.state],
                             IF given THEN env[Stmt.cond] ELSE 0)
            IN  \E o \in Outcomes(sv.inputs, sv.titrants,
                                  IF given THEN Obj(Stmt.cond).vals ELSE EmptyFn,
                                  IF given THEN Obj(Stmt.cond).lo ELSE EmptyFn,
                                  IF given THEN Obj(Stmt.cond).hi ELSE EmptyFn, st) :
                    IF o.ok
                    THEN /\ Return(Stmt.res, env[Stmt.state], o)
                         /\ last' = Returned(call, st, o)
                         /\ Done
                         /\ UNCHANGED made
                    ELSE Raise
       ELSE Raise
    /\ UNCHANGED <<nb, code, loops>>

\* res = solver.solve(state, conditions), res = solver.solve(state)
SolverSolve ==
    /\ At("solve")
    /\ IF /\ IsA(Stmt.solver, "EquilibriumSolver")
          /\ IsA(Stmt.state, "ChemicalState")
          /\ Stmt.cond = "" \/ IsA(Stmt.cond, "EquilibriumConditions")
       THEN LET sv == Obj(Stmt.solver)
                st == Settled(Obj(Stmt.state))
                given == Stmt.cond # ""
                call == Call(Stmt.line, env[Stmt.solver], env[Stmt.state],
                             IF given THEN env[Stmt.cond] ELSE 0)
            IN  \E o \in Outcomes(sv.inputs, sv.titrants,
                                  IF given THEN Obj(Stmt.cond).vals ELSE EmptyFn,
                                  IF given THEN Obj(Stmt.cond).lo ELSE EmptyFn,
                                  IF given THEN Obj(Stmt.cond).hi ELSE EmptyFn, st) :
                    /\ Return(Stmt.res, env[Stmt.state], o)
                    /\ last' = Returned(call, st, o)
                    /\ Done
                    /\ UNCHANGED made
       ELSE Raise
    /\ UNCHANGED <<nb, code, loops>>

\* res = equilibrate(state): the function makes a solver for the system of
\* the state and solves with it
CallEquilibrate ==
    /\ At("equilibrate")
    /\ IF IsA(Stmt.state, "ChemicalState")
       THEN LET st == Settled(Obj(Stmt.state))
                call == Call(Stmt.line, 0, env[Stmt.state], 0)
            IN  \E o \in Outcomes({"T", "P"}, {}, EmptyFn, EmptyFn, EmptyFn, st) :
                    /\ Return(Stmt.res, env[Stmt.state], o)
                    /\ last' = Returned(call, st, o)
                    /\ made' = [made EXCEPT !.equilibrate = @ + 1]
                    /\ Done
       ELSE Raise
    /\ UNCHANGED <<nb, code, loops>>

\* the ion of the element c among the species
Ions(c, species) ==
    {sp \in species \cap AqueousSpecies : ElementsOf(sp) = {c} /\ A[sp][c] = 1 /\ A[sp]["Z"] # 0}

\* the species in which the calculation starts with the substance f: the
\* species of that name or formula if the system has one, else the ions of
\* its elements
Placed(f, species) ==
    IF f \in species \/ \E sp \in species : A[sp] = A[f]
    THEN (Receiver(f, species) :> 1)
    ELSE [sp \in {CHOOSE i \in Ions(c, species) : TRUE : c \in ElementsOf(f)} |->
             A[f][CHOOSE c \in ElementsOf(f) : sp \in Ions(c, species)]]

Placeable(f, species) ==
    \/ f \in species
    \/ \E sp \in species : A[sp] = A[f]
    \/ \A c \in ElementsOf(f) : Ions(c, species) # {}

\* the species amounts the calculation for a material starts from
InitialAmounts(n, species) ==
    [sp \in species |->
        DefaultAmount + SumOver(DOMAIN n, [f \in DOMAIN n |->
            IF sp \in DOMAIN Placed(f, species) THEN n[f] * Placed(f, species)[sp] ELSE 0])]

\* x = m.equilibrate(T, unitT, P, unitP): a new state with the element
\* amounts of the material, in equilibrium at T and P
MaterialEquilibrate ==
    /\ At("mequilibrate")
    /\ IF /\ IsA(Stmt.m, "Material") /\ Defined(Stmt.T) /\ Defined(Stmt.P)
          /\ \A f \in DOMAIN MaterialAmounts(Obj(Stmt.m)) :
                Placeable(f, heap[Obj(Stmt.m).sys].species)
       THEN LET m  == Obj(Stmt.m)
                st == [kind |-> "ChemicalState", sys |-> m.sys,
                       T |-> ToKelvin(Eval(Stmt.T).q, Stmt.unitT),
                       P |-> ToPascal(Eval(Stmt.P).q, Stmt.unitP),
                       n |-> InitialAmounts(MaterialAmounts(m), heap[m.sys].species),
                       scale |-> NoScale]
                call == [NoCall EXCEPT !.line = Stmt.line, !.state = Len(heap) + 1,
                                       !.solversys = m.sys, !.statesys = m.sys,
                                       !.declared = {"T", "P"},
                                       !.before = [T |-> st.T, P |-> st.P,
                                                   b |-> ComponentAmounts(st.n)],
                                       !.composition = MaterialComposition(m)]
            IN  \E o \in Outcomes({"T", "P"}, {}, EmptyFn, EmptyFn, EmptyFn, st) :
                    /\ BindObject(Stmt.x, [st EXCEPT !.T = o.T, !.P = o.P, !.n = o.n])
                    /\ last' = Returned(call, st, o)
                    /\ Done
                    /\ UNCHANGED made
       ELSE Raise
    /\ UNCHANGED <<nb, code, loops>>

AssignName ==
    /\ At("assign")
    /\ IF Defined(Stmt.e)
       THEN /\ BindNumber(Stmt.x, Eval(Stmt.e))
            /\ Done
            /\ UNCHANGED <<made, last>>
       ELSE Raise
    /\ UNCHANGED <<nb, code, loops>>

IncreaseName ==
    /\ At("increase")
    /\ IF Defined(Var(Stmt.x)) /\ Defined(Stmt.e)
       THEN /\ BindNumber(Stmt.x, Number(Plus(num[Stmt.x].q, Eval(Stmt.e).q)))
            /\ Done
            /\ UNCHANGED <<made, last>>
       ELSE Raise
    /\ UNCHANGED <<nb, code, loops>>

ConstructFrame ==
    /\ At("frame")
    /\ BindObject(Stmt.x, [kind |-> "DataFrame", rows |-> EmptyFn])
    /\ Done
    /\ UNCHANGED <<nb, code, loops, made, last>>

\* x.loc[len(at)] = row: the row with that label is set, and added if the
\* frame has no row with that label
FrameSetRow ==
    /\ At("row")
    /\ IF /\ IsA(Stmt.x, "DataFrame") /\ IsA(Stmt.at, "DataFrame")
          /\ \A i \in 1..Len(Stmt.row) : Defined(Stmt.row[i])
       THEN /\ Mutate(Stmt.x, [Obj(Stmt.x) EXCEPT
                        !.rows = (Cardinality(DOMAIN Obj(Stmt.at).rows)
                                    :> [i \in 1..Len(Stmt.row) |-> Eval(Stmt.row[i])]) @@ @])
            /\ Done
            /\ UNCHANGED <<made, last>>
       ELSE Raise
    /\ UNCHANGED <<nb, code, loops>>

\* for x in vals: the next element is bound to x and the body runs, or
\* the loop ends
ForNext ==
    /\ At("for")
    /\ LET running == loops # <<>> /\ Head(loops).at = pc
           i == IF running THEN Head(loops).i + 1 ELSE 1
           outer == IF running THEN Tail(loops) ELSE loops
       IN  IF i <= Len(Stmt.vals)
           THEN /\ BindNumber(Stmt.x, Number(Stmt.vals[i]))
                /\ loops' = <<[at |-> pc, i |-> i]>> \o outer
                /\ pc' = pc + 1
           ELSE /\ loops' = outer
                /\ pc' = pc + Stmt.body + 2
                /\ UNCHANGED <<env, num, heap>>
    /\ UNCHANGED <<nb, code, made, last, err>>

\* the end of the body of a loop: back to its head
ForEnd ==
    /\ At("endfor")
    /\ pc' = pc - Stmt.body - 1
    /\ UNCHANGED <<nb, code, env, num, heap, loops, made, last, err>>

\* print(x): reads x
ShowName ==
    /\ At("show")
    /\ IF Bound(Stmt.x)
       THEN Done /\ UNCHANGED <<env, num, heap, made, last>>
       ELSE Raise
    /\ UNCHANGED <<nb, code, loops>>

Next ==
    \/ LoadDatabase
    \/ DefinePhase
    \/ PhaseSetActivityModel
    \/ ConstructSystem
    \/ ConstructState
    \/ StateSetTemperature
    \/ StateSetPressure
    \/ StateSet
    \/ StateAdd
    \/ StateScaleVolume
    \/ StateScaleMass
    \/ ConstructMaterial
    \/ MaterialAdd
    \/ MaterialMix
    \/ MaterialEquilibrate
    \/ ConstructProps
    \/ PropsUpdate
    \/ ConstructSpecs
    \/ SpecsDeclare
    \/ ConstructSolver
    \/ ConstructConditions
    \/ ConditionsSet
    \/ ConditionsSetBound
    \/ SolverSolve
    \/ CallEquilibrate
    \/ AssignName
    \/ IncreaseName
    \/ ConstructFrame
    \/ FrameSetRow
    \/ ForNext
    \/ ForEnd
    \/ ShowName

Spec == Init /\ [][Next]_vars

----------------------------------------------------------------------------
(* Properties.                                                             *)

\* a call of solve or equilibrate has returned
Solved == last.line # 0

\* the call that returned last is the one at the line of the notebook
SolvedAt(book, line) == nb = book /\ last.line = line

\* the change that the call made to the amount of the component c
Delta(c) == last.after.b[c] - last.before.b[c]

C2_ChargeBalance ==
    SolvedAt("FixedPHChargeBalance", 111) =>
        /\ last.declared = {"T", "P", "pH", "charge"}
        /\ last.open = {"H+", "Cl-"}
        /\ heap[last.cond].vals["charge"].q[1] = 0
        /\ last.before.b["Na"] = 10000 /\ last.before.b["Cl"] = 10000
        /\ last.before.b["Z"] = 0
        /\ last.ok => /\ last.after.b["Z"] = 0
                      /\ Delta("H") = Delta("Cl")
                      /\ Delta("Na") = 0
                      /\ Delta("C") = 0

\* C2 happens: the solve succeeded and H+ and Cl- have entered
C2_Witness ==
    /\ SolvedAt("FixedPHChargeBalance", 111)
    /\ last.ok
    /\ Delta("H") > 0 /\ Delta("Cl") > 0
C4_OpenToCarbonDioxide ==
    SolvedAt("FixedFugacity", 94) =>
        /\ last.declared = {"T", "P", "f[CO2(g)]"}
        /\ last.open = {"CO2"}
        /\ Delta("O") = 2 * Delta("C")
        /\ \A c \in {"H", "Na", "Cl", "Ca", "Z"} : Delta(c) = 0

\* C4 happens: CO2 has entered at the solve of the fixed-fugacity notebook
C4_Witness ==
    /\ SolvedAt("FixedFugacity", 94)
    /\ Delta("C") > 0
    /\ last.before.b["Ca"] > 0

\* C5: solve(state, conditions) writes its outcome to the state object of
\* the caller, which the name of the state keeps referring to; when the
\* temperature and the pressure are declared inputs with values in the
\* conditions, the state has those values after the call (in the fixed-pH
\* notebook: 30 C and 1 atm before, 50 C and 10 atm after)
C5_SolveInPlace ==
    [][ (At("solve") /\ Stmt.cond # "" /\ pc' = pc + 1) =>
            LET s == env[Stmt.state]
                c == Obj(Stmt.cond)
            IN  /\ env'[Stmt.state] = s
                /\ heap'[s].kind = "ChemicalState"
                /\ {"T", "P"} \subseteq Obj(Stmt.solver).inputs \cap DOMAIN c.vals =>
                        /\ heap'[s].T = c.vals["T"].q[1]
                        /\ heap'[s].P = c.vals["P"].q[1]
                /\ nb = "FixedPH" =>
                        /\ heap[s].T = 30315 /\ heap[s].P = 101325
                        /\ heap'[s].T = 32315 /\ heap'[s].P = 1013250
      ]_vars

\* C5 happens: the solve of the fixed-pH notebook returned and the state
\* the name refers to has the temperature and pressure of the conditions
C5_Witness ==
    /\ SolvedAt("FixedPH", 168)
    /\ last.before.T = 30315 /\ last.before.P = 101325
    /\ Obj("state").T = 32315 /\ Obj("state").P = 1013250
    /\ env["state"] = last.state
\* C6: the conditions passed to solve(state, conditions) were constructed
\* from the very specs object the solver was constructed from; so it is
\* after specs, conditions and solver were bound anew in the custom-
\* constraints notebook, and for the one conditions object that all calls
\* of the calcite notebook share
C6_ConditionsOfTheSolver ==
    /\ (Solved /\ last.cond # 0) =>
            /\ last.solverspecs # 0
            /\ last.condspecs = last.solverspecs
    /\ (nb = "CalciteSolubility" /\ Solved /\ last.cond # 0) =>
            /\ made.specs = 1
            /\ last.cond = env["conditions"]

\* C6 happens: the solve of the second problem of the custom-constraints
\* notebook returned; its specs are the second specs object made
C6_Witness ==
    /\ SolvedAt("CustomConstraints", 312)
    /\ made.specs = 2 /\ made.solver = 2
    /\ last.condspecs = env["specs"]
    /\ last.solver = env["solver"]

\* C7: at a call solve(state, conditions) every input that the specs of the
\* solver declare has a value in the conditions; a temperature or pressure
\* that is not declared has no value there, but a lower or an upper bound,
\* and only such unknowns have bounds
C7_DeclaredInputsAreSet ==
    (Solved /\ last.cond # 0) =>
        /\ last.declared \subseteq last.given
        /\ \A v \in {"T", "P"} \ last.declared : v \notin last.given /\ v \in last.bounded
        /\ last.bounded \cap last.declared = {}

\* C7 happens: the solve of the fixed-volume notebook returned, with volume
\* and internal energy given and temperature and pressure bounded
C7_Witness ==
    /\ SolvedAt("FixedVolumeInternalEnergy", 128)
    /\ last.declared = {"V", "U"}
    /\ last.given = {"V", "U"}
    /\ last.bounded = {"T", "P"}

RowsOf(x) == Cardinality(DOMAIN Obj(x).rows)

\* the number of iterations of the innermost running loop that have come to
\* the end of their body, over all iterations of the loops around it
RECURSIVE Completed(_)
Completed(stack) ==
    IF Len(stack) = 1 THEN stack[1].i
    ELSE (Completed(Tail(stack)) - 1) * Len(Program[stack[1].at].vals) + stack[1].i

\* the sweep loops: the line of the for statement whose body sets the rows,
\* the frame, the rows the frame has when the loop begins, and the number
\* of iterations of the loop
SweepLoops ==
    { [book |-> "CalciteSolubility", for |-> 201, frame |-> "df_water", baseline |-> 0,
       iterations |-> Len(CalciteTemperatures) * Len(CalcitePressures)],
      [book |-> "CalciteSolubility", for |-> 201, frame |-> "df_rainwater", baseline |-> 0,
       iterations |-> Len(CalciteTemperatures) * Len(CalcitePressures)],
      [book |-> "CalciteSolubility", for |-> 368, frame |-> "df_seawater", baseline |-> 0,
       iterations |-> Len(Take(Range(nsteps), MaxSteps))],
      [book |-> "OpeningBottle", for |-> 585, frame |-> "df", baseline |-> 0,
       iterations |-> Len(BottlePressures)],
      [book |-> "Anhydrite", for |-> 319, frame |-> "df", baseline |-> 0,
       iterations |-> Len(AnhydritePressures) * Len(AnhydriteTemperatures)],
      [book |-> "Contaminants", for |-> 82, frame |-> "pd1", baseline |-> 1,
       iterations |-> Len(Take(Range(nsteps), MaxSteps))],
      [book |-> "Contaminants", for |-> 133, frame |-> "pd2", baseline |-> 1,
       iterations |-> Len(Take(Range(nsteps), MaxSteps))],
      [book |-> "SeawaterCO2", for |-> 105, frame |-> "df", baseline |-> 1,
       iterations |-> Len(Take(Range(nsteps), MaxSteps))] }

\* the body of the sweep loop s has come to its end
AtEndOfBody(s) == nb = s.book /\ At("endfor") /\ Stmt.line = s.for

\* C9: a calculation that fails stops no notebook: nothing is raised, and
\* in every sweep loop each iteration adds its row to the frame whatever
\* the outcomes of its solves, so that the loop adds as many rows as it has
\* iterations (to the row, if any, that the frame has when the loop begins)
C9_RowPerIteration ==
    /\ err = ""
    /\ \A s \in SweepLoops :
            /\ AtEndOfBody(s) => RowsOf(s.frame) = s.baseline + Completed(loops)
            /\ (nb = s.book /\ pc > Len(Program)) =>
                    RowsOf(s.frame) = s.baseline + s.iterations

\* C9 happens: an iteration of the calcite sweep comes to its end after a
\* solve that failed, and its rows are in the frames
C9_Witness ==
    /\ nb = "CalciteSolubility" /\ At("endfor") /\ Stmt.line = 201
    /\ ~last.ok /\ last.line = 187
    /\ Completed(loops) = Len(CalciteTemperatures) * Len(CalcitePressures)
    /\ RowsOf("df_water") = Completed(loops)
    /\ RowsOf("df_rainwater") = Completed(loops)

\* C10: while a loop runs, no solver and no specs are constructed and
\* equilibrate is not called; one solver, and at most one specs object, has
\* been constructed, before the loop
C10_OneSolverPerSweep ==
    [][ loops # <<>> =>
            /\ made' = made
            /\ made.solver = 1
            /\ made.specs <= 1 ]_vars

\* C10 happens: the sweep of the calcite notebook is in its last iteration,
\* all solves of the sweep made with the one solver
C10_Witness ==
    /\ nb = "CalciteSolubility" /\ At("endfor") /\ Stmt.line = 368
    /\ Head(loops).i = Len(Take(Range(nsteps), MaxSteps))
    /\ made = [solver |-> 1, specs |-> 1, equilibrate |-> 0]
    /\ last.solver = env["solver"]

\* the objects that are made of a system and refer to it
MadeOfSystem == {"ChemicalState", "EquilibriumSpecs", "EquilibriumSolver", "Props"}

PrintingFormulaMatrix ==
    nb = "CreatingChemicalStates" /\ Running /\ Stmt.line = 287 /\ IsA("system", "ChemicalSystem")

\* a system has just been constructed
SystemConstructed ==
    /\ err = "" /\ pc > 1 /\ pc - 1 <= Len(Program)
    /\ Program[pc - 1].op = "system"
    /\ IsA(Program[pc - 1].x, "ChemicalSystem")

\* C12: the formula matrix of a system has a row for every element of the
\* system and a last row for the electric charge, and a column for every
\* species; an entry is the number of atoms of the element of its row in the
\* species of its column, in the last row the charge of the species.  The
\* matrix of the system of H2O, H+, OH-, Na+, Cl- and halite is 5 x 6, its
\* first column is that of H2O (2 for H, 1 for O, 0 for Na, Cl and the
\* charge) and its last row the charges 0, +1, -1, +1, -1, 0
C12_FormulaMatrix ==
    /\ SystemConstructed =>
          LET sys  == Obj(Program[pc - 1].x)
              W    == FormulaMatrix(sys)
              rows == SystemElements(sys.species)
              elts == UNION {ElementsOf(sp) : sp \in sys.species}
          IN  /\ Len(W) = Cardinality(elts) + 1
              /\ {rows[j] : j \in 1..Len(rows)} = elts
              /\ {sys.columns[i] : i \in 1..Len(sys.columns)} = sys.species
              /\ \A j \in 1..Len(W) : Len(W[j]) = Cardinality(sys.species)
              /\ \A i \in 1..Len(sys.columns) :
                    /\ W[Len(W)][i] = Formula(sys.columns[i])["Z"]
                    /\ \A j \in 1..Len(rows) : W[j][i] = Formula(sys.columns[i])[rows[j]]
    /\ PrintingFormulaMatrix =>
          LET W    == FormulaMatrix(Obj("system"))
              rows == SystemElements(Obj("system").species)
          IN  /\ Len(W) = 5
              /\ \A j \in 1..5 : Len(W[j]) = 6
              /\ Obj("system").columns[1] = "H2O"
              /\ {rows[j] : j \in 1..Len(rows)} = {"H", "O", "Na", "Cl"}
              /\ \A j \in 1..4 :
                    W[j][1] = (CASE rows[j] = "H" -> 2 [] rows[j] = "O" -> 1 [] OTHER -> 0)
              /\ W[5] = <<0, 1, -1, 1, -1, 0>>

\* C12 happens: the formula matrix of the halite system is printed
C12_Witness ==
    /\ PrintingFormulaMatrix
    /\ Obj("system").columns = <<"H2O", "H+", "OH-", "Na+", "Cl-", "Halite">>
    /\ Len(FormulaMatrix(Obj("system"))) = 5

\* the cell with the class Material is about to equilibrate the mixture,
\* after the composition built by hand was equilibrated
EquilibratingMixture ==
    /\ nb = "DefiningMaterials" /\ Running /\ Stmt.line = 174
    /\ IsA("mix", "Material") /\ last.line = 135

BrineSet ==
    /\ nb = "DefiningMaterials" /\ Running /\ IsA("state", "ChemicalState")
    /\ Stmt.line \in {98, 101, 102, 105, 106, 132, 133, 135}

\* C14: in the brine built by hand the amount of Cl- is n(Na+) + 2 n(Ca+2)
\* + 2 n(Mg+2) = 1.30 mol, so the charge of the state is zero after the
\* set calls; scaleFluidMass and scaleSolidMass leave the amounts given
\* and put one factor on the fluid and one on the solid species, so the
\* charge, that factor times zero, is still zero
C14_ChargeStaysZero ==
    BrineSet =>
        LET st == Obj("state")
        IN  /\ st.n["Cl-"] = st.n["Na+"] + 2 * st.n["Ca+2"] + 2 * st.n["Mg+2"]
            /\ st.n["Cl-"] = 1300000
            /\ Charge(st.n) = 0
            /\ \A p \in Composition(st) : p.b["Z"] = 0 /\ p.scale[1] > 0 /\ p.scale[2] > 0
            /\ Stmt.line \in {98, 101, 102, 105} => st.scale = NoScale
            /\ Stmt.line = 106 => st.scale.fluid[1] = 1000000 /\ st.scale.solid = <<1, 1>>
            /\ Stmt.line \in {132, 133, 135} =>
                  st.scale.fluid[1] = 1000000 /\ st.scale.solid[1] = 10000

C14_Witness ==
    /\ BrineSet /\ Stmt.line = 132
    /\ Obj("state").scale.fluid = <<1000000, Mass(Obj("state").n, FluidSpecies)>>
    /\ Obj("state").scale.solid = <<10000, Mass(Obj("state").n, SolidSpecies)>>
    /\ Amounts(Obj("state"))["Cl-"] < 1300000
    /\ Amounts(Obj("state"))["Cl-"] > 1200000
    /\ Amounts(Obj("state"))["Quartz"] * 9 < Obj("state").n["Quartz"]


\* C15: in the extraction notebook both solves are closed and keep the
\* charge; the extractant adds as much Na+ as Cl-, so the state that the
\* second solve (line 230) starts from has the charge the first solve
\* (line 140) ended with, and the charge after the second solve is the
\* charge after the first
C15_ChargeKept ==
    nb = "IonExchange" =>
        /\ last.line \in {140, 230} =>
              /\ last.open = {} /\ last.given = {}
              /\ last.after.b["Z"] = last.before.b["Z"]
        /\ (Running /\ last.line = 140 /\ Stmt.line \in {141, 142, 181, 182, 185, 225, 226, 227, 230}) =>
              Charge(Obj("state").n) = last.after.b["Z"]
        /\ (Running /\ last.line = 140 /\ Stmt.line = 228) =>
              Charge(Obj("state").n) = last.after.b["Z"] + ToMicroMol("Na+", num["scale"].q, "mol")
        /\ last.line = 140 => last.after.b["Z"] = 5810
        /\ last.line = 230 =>
              /\ last.after.b["Z"] = 5810
              /\ IsA("state", "ChemicalState") /\ Charge(Obj("state").n) = 5810

C15_Witness ==
    /\ nb = "IonExchange" /\ last.line = 230 /\ last.ok /\ last.moved
    /\ Charge(Obj("state").n) = 5810
    /\ Obj("state").n["Cl-"] >= 19999
    /\ Obj("state").n["Na+"] >= 20000

\* the porewater state is being set up, or is set up and about to be
\* equilibrated
PorewaterSetUp ==
    /\ nb = "IonExchange" /\ Running /\ IsA("state", "ChemicalState")
    /\ Stmt.line \in 117..140

\* C16: during the set-up of the porewater no amount is negative; when it is
\* done the state has 1.1 mmol of sodium (Na+ and NaX), 0.05 mmol of the
\* exchanger X, 1.05 mmol of Na+ and the charge 1.05 + 2 * 0.48 + 2 * 1.9
\* = 5.81 mmol
C16_Porewater ==
    PorewaterSetUp =>
        LET st == Obj("state")
        IN  /\ \A sp \in DOMAIN st.n : st.n[sp] >= 0
            /\ Stmt.line = 140 =>
                  /\ ComponentAmounts(st.n)["Na"] = 1100
                  /\ st.n["Na+"] + st.n["NaX"] = 1100
                  /\ ComponentAmounts(st.n)["X"] = 50
                  /\ st.n["Na+"] = 1050
                  /\ st.n["Mg+2"] = 480 /\ st.n["Ca+2"] = 1900
                  /\ Charge(st.n) = 1050 + 2 * 480 + 2 * 1900
                  /\ Charge(st.n) = 5810

C16_Witness ==
    /\ PorewaterSetUp /\ Stmt.line = 140 /\ last.line = 0
    /\ Obj("state").n["Na+"] = 1050 /\ Obj("state").n["NaX"] = 50
    /\ Charge(Obj("state").n) = 5810


\* the statement of line 400 has just set a row of df_seawater
SeawaterRowSet ==
    /\ nb = "CalciteSolubility" /\ err = "" /\ pc > 1 /\ pc - 1 <= Len(Program)
    /\ Program[pc - 1].op = "row" /\ Program[pc - 1].line = 400
    /\ IsA("df_seawater", "DataFrame") /\ IsA("state", "ChemicalState")

\* the carbon that seawater() and the 10 mol of calcite give a state
CarbonOfSeawaterAndCalcite ==
    ToMicroMol("HCO3-", Lit(1417, 10), "mg") + ToMicroMol("Calcite", Lit(10, 1), "mol")

\* C17: the amountCO2 of a row of df_seawater is the amount of CO2(g) that
\* was set in the state whose pH, dissolved calcite and CO2(aq) the row
\* records: the carbon of that state besides the carbon of the seawater
\* and of the calcite (no solve of the notebook is open to carbon)
C17_RowOfItsState ==
    SeawaterRowSet =>
        LET rows == Obj("df_seawater").rows
            row  == rows[Cardinality(DOMAIN rows) - 1]
        IN  /\ row[1].tok = "num"
            /\ ToMicroMol("CO2(g)", row[1].q, "mmol")
                  = ComponentAmounts(Obj("state").n)["C"] - CarbonOfSeawaterAndCalcite


\* the loops that add to one state step by step: the frame, the lines of
\* the baseline row and of the row of the loop, of the solve of the
\* baseline and of the solve of the loop, of the statements that evaluate
\* the props of the baseline and of the loop, the name of the step, the
\* species added, and an element of it with the amount the baseline has
CumulativeLoops ==
    { [book |-> "Contaminants", frame |-> "pd1", baseline |-> 79, row |-> 98,
       solved |-> 48, solve |-> 89, props |-> 51, update |-> 92, delta |-> "hcl_delta", species |-> "Cl-",
       element |-> "Cl", given |-> 0],
      [book |-> "Contaminants", frame |-> "pd2", baseline |-> 131, row |-> 148,
       solved |-> 122, solve |-> 139, props |-> 123, update |-> 142, delta |-> "nh3_delta", species |-> "NH3",
       element |-> "N", given |-> 0],
      [book |-> "SeawaterCO2", frame |-> "df", baseline |-> 103, row |-> 120,
       solved |-> 79, solve |-> 111, props |-> 81, update |-> 114, delta |-> "co2_delta", species |-> "CO2(g)",
       element |-> "C", given |-> ToMicroMol("HCO3-", Lit(1417, 10), "mg")] }

\* the props of a cumulative loop are about to be evaluated
EvaluatingProps(f) ==
    /\ nb = f.book /\ Running /\ Stmt.op \in {"props", "update"}
    /\ Stmt.line \in {f.props, f.update}

\* C18: in a cumulative loop the props are evaluated, for the baseline
\* (k = 0) and in iteration k, after the solve of that iteration, on the
\* state that this solve left; and when the baseline row or the row of
\* iteration k is written, the state holds k times the step more than the
\* baseline, the props are those of the state as it is, and the row added
\* records k times the step and the pH of these props; the frame then has
\* k + 1 rows
C18_CumulativeRows ==
    [][ \A f \in CumulativeLoops :
            LET st == Obj("state") IN
            /\ EvaluatingProps(f) =>
                    /\ err' = ""
                    /\ last.line = (IF Stmt.line = f.props THEN f.solved ELSE f.solve)
                    /\ last.state = env["state"]
                    /\ last.after = SnapOf(st)
                    /\ heap'[env'["aprops"]].snap = SnapOf(st)
            /\ (nb = f.book /\ At("row") /\ Stmt.line \in {f.baseline, f.row}) =>
                    LET k     == IF Stmt.line = f.row THEN Head(loops).i ELSE 0
                        total == k * ToMicroMol(f.species, num[f.delta].q, "mmol")
                        old   == Obj(f.frame).rows
                        rows  == heap'[env[f.frame]].rows
                    IN  /\ err' = ""
                        /\ SnapOf(st).b[f.element] = f.given + total
                        /\ Obj("aprops").snap = SnapOf(st)
                        /\ Cardinality(DOMAIN rows) = k + 1
                        /\ \E l \in DOMAIN rows \ DOMAIN old :
                                /\ rows[l][1].tok = "num"
                                /\ ToMicroMol(f.species, rows[l][1].q, "mmol") = total
                                /\ rows[l][2] = Token("pH", SnapOf(st)) ]_vars

\* C18 happens: the last iteration of the NH3 loop has written its row.
\* The baseline row of pd2 has the label len(pd1), the rows of the loop
\* the labels 1, 2, ...
C18_Witness ==
    /\ nb = "Contaminants" /\ At("endfor") /\ Stmt.line = 133
    /\ Head(loops).i = Len(Take(Range(nsteps), MaxSteps))
    /\ Head(loops).i >= 2
    /\ DOMAIN Obj("pd2").rows = 1..(Head(loops).i) \cup {RowsOf("pd1")}
    /\ Obj("pd2").rows[RowsOf("pd1")][1] = Number(Lit(0, 1))
    /\ ToMicroMol("NH3", Obj("pd2").rows[2][1].q, "mmol") = 200
    /\ ComponentAmounts(Obj("state").n)["N"] = Head(loops).i * 100
    /\ last.line = 139 /\ last.moved


\* the temperature and the pressure of the call of solubility_of_calcite
\* that is running, in the units of the model
CallT == ToKelvin(num["T"].q, "celsius")
CallP == ToPascal(num["P"].q, "bar")

\* a statement of the body of solubility_of_calcite is about to run
InSolubilityOfCalcite(lines) ==
    nb = "CalciteSolubility" /\ Running /\ Stmt.line \in lines /\ IsA("state", "ChemicalState")

\* C19: the state that water() or rainwater() returns has the temperature
\* and pressure of a new state; the first solve of a call of
\* solubility_of_calcite is given the T and P of the call in the conditions
\* and writes them to the state; the second solve has no conditions and is
\* done at the T and P of the state, which are those of the call; the row
\* of the call holds T, P and a pH evaluated at that T and P
C19_BothSolvesAtCallConditions ==
    /\ InSolubilityOfCalcite({175, 177, 178, 181}) =>
          /\ Obj("state").T \in DefaultTemperatures
          /\ Obj("state").P = DefaultPressure
    /\ InSolubilityOfCalcite({184, 187}) =>
          /\ last.line = 181 /\ last.cond # 0
          /\ last.wanted.T = CallT /\ last.wanted.P = CallP
          /\ last.after.T = CallT /\ last.after.P = CallP
          /\ Obj("state").T = CallT /\ Obj("state").P = CallP
    /\ InSolubilityOfCalcite({190, 193, 196, 198}) =>
          /\ last.line = 187 /\ last.cond = 0
          /\ last.before.T = CallT /\ last.before.P = CallP
          /\ last.after.T = CallT /\ last.after.P = CallP
          /\ Obj("state").T = CallT /\ Obj("state").P = CallP
    /\ (InSolubilityOfCalcite({196, 198}) /\ IsA("aprops", "Props")) =>
          /\ Eval(Stmt.row[1]) = num["T"] /\ Eval(Stmt.row[2]) = num["P"]
          /\ Eval(Stmt.row[3]).tok = "pH"
          /\ Eval(Stmt.row[3]).at = <<CallT, CallP>>

C19_Witness ==
    /\ InSolubilityOfCalcite({198})
    /\ num["T"].q = Lit(20, 1) /\ num["P"].q = Lit(10, 1)
    /\ last.line = 187 /\ last.ok /\ last.moved
    /\ last.before.T = 29315 /\ last.after.P = 1000000
    /\ Eval(Stmt.row[3]).at = <<29315, 1000000>>


\* what the conditions object of the calcite notebook holds when a solve
\* with conditions is about to run: the T and P of the call and the charge 0
ConditionsOfCall ==
    /\ IsA("conditions", "EquilibriumConditions")
    /\ DOMAIN Obj("conditions").vals = {"T", "P", "charge"}
    /\ Obj("conditions").vals["T"].q[1] = CallT
    /\ Obj("conditions").vals["P"].q[1] = CallP
    /\ Obj("conditions").vals["charge"].q[1] = 0

\* C20: the statements run one after the other, so in the calcite notebook
\* a conditions object changes only by the statement conditions.x(...) that
\* is running, and only in the input that statement names; the charge is
\* set at line 83 and by no later statement; so at every solve(state,
\* conditions) the conditions hold the T and P that the statements before
\* gave them for this call, and the charge 0
C20_ConditionsBetweenSetAndSolve ==
    [][ nb = "CalciteSolubility" =>
          /\ \A i \in 1..Len(heap) :
                (heap[i].kind = "EquilibriumConditions" /\ heap'[i] # heap[i]) =>
                    /\ At("input") /\ env[Stmt.x] = i
                    /\ heap'[i].kind = "EquilibriumConditions"
                    /\ \A v \in DOMAIN heap[i].vals \ {Stmt.input} :
                          v \in DOMAIN heap'[i].vals /\ heap'[i].vals[v] = heap[i].vals[v]
          /\ At("input") => (Stmt.input = "charge" <=> Stmt.line = 83)
          /\ (At("solve") /\ Stmt.cond # "") =>
                /\ Stmt.cond = "conditions" /\ Stmt.line \in {181, 381}
                /\ ConditionsOfCall
                /\ last'.line = Stmt.line
                /\ last'.wanted = [T |-> CallT, P |-> CallP]
                /\ last'.cond = env["conditions"] ]_vars

C20_Witness ==
    /\ nb = "CalciteSolubility" /\ Running /\ Stmt.line = 381
    /\ ConditionsOfCall
    /\ CallT = 29815 /\ CallP = 100000
    /\ last.line = 387 /\ last.after.T = 29815
    /\ num["co2_0"].q = Lit(2, 1)

====
